---- MODULE Spec2Model ----
(***************************************************************************)
(* Recurrence sets, recurrence rules and calendar offsets as the workbooks *)
(* of pycon-us-2019-dealing-with-datetimes use them: rruleset / rrule      *)
(* (dateutil.rrule) and relativedelta (dateutil.relativedelta), driven by  *)
(* the calls, the documentation cells and the recorded outputs of the      *)
(* notebooks.  A datetime is kept to the minute; every datetime of the     *)
(* workbooks has zero seconds and microseconds.                            *)
(***************************************************************************)
EXTENDS Integers, Sequences, FiniteSets, TLC

VARIABLES
    dt,        \* relativedelta workbook: the datetime the cell works on
    dt0,       \* the datetime the cell started from
    delta,     \* the relativedelta the cell has built
    recipe,    \* how delta was built: the constructor call, then each derivation
    trail,     \* the operations applied to dt0 so far ("add", "sub"), oldest first
    exc,       \* the exception the last operation raised, or "None"
    rrs,       \* recurring-events workbook: the rruleset the cells build
    out,       \* the output of the workbook's last cell
    rule,      \* the rrule the cells traverse and query
    len,       \* rule._len: the length a finished traversal left on the rule
    gens,      \* the generators that iter(rule) returned, in the order started
    yields,    \* yields[i]: what gens[i] has yielded so far
    seen,      \* the first answer between() gave for the rule
    objs,      \* the rrule objects the cells have constructed, oldest first
    calls,     \* the rrule(...) and rule.replace(...) calls made, oldest first
    asked,     \* the objects the last cell listed or put in a set, and what it raised
    tzs,       \* aware-semantics workbook: the tzinfo objects made, oldest first
    dts,       \* the aware datetimes the cells have made, oldest first
    cmp        \* what the last cell printed of the comparisons of the datetimes

deltaVars == <<dt, dt0, delta, recipe, trail, exc>>
setVars == <<rrs>>
ruleVars == <<rule, len, gens, yields, seen>>
buildVars == <<objs, calls, asked>>
awareVars == <<tzs, dts, cmp>>
vars ==
    <<dt, dt0, delta, recipe, trail, exc, rrs, out, rule, len, gens, yields, seen,
      objs, calls, asked, tzs, dts, cmp>>

(***************************************************************************)
(* Optional values: None is the empty tuple, a present value x is <<x>>.   *)
(***************************************************************************)
None == <<>>
Some(x) == <<x>>
Get(o) == o[1]
\* Python's `a or b` on an optional number: None and 0 are both falsy.
Truthy(o) == o # None /\ Get(o) # 0
OrElse(o, x) == IF Truthy(o) THEN Get(o) ELSE x

Min(a, b) == IF a <= b THEN a ELSE b
Abs(x) == IF x < 0 THEN -x ELSE x
Sign(x) == IF x < 0 THEN -1 ELSE 1

(***************************************************************************)
(* The proleptic Gregorian calendar of datetime.                           *)
(***************************************************************************)
MO == 0
TU == 1
WE == 2
TH == 3
FR == 4
SA == 5
SU == 6

isleap(year) == year % 4 = 0 /\ (year % 100 # 0 \/ year % 400 = 0)

\* calendar.monthrange(year, month)[1]
daysinmonth(year, month) ==
    IF month = 2 THEN (IF isleap(year) THEN 29 ELSE 28)
    ELSE IF month \in {4, 6, 9, 11} THEN 30 ELSE 31

days_before_year(year) ==
    LET y == year - 1 IN y * 365 + (y \div 4) - (y \div 100) + (y \div 400)

\* datetime's _days_before_month: the table _DAYS_BEFORE_MONTH, and a day more
\* after the February of a leap year
days_before_month(year, month) ==
    <<0, 31, 59, 90, 120, 151, 181, 212, 243, 273, 304, 334>>[month]
        + (IF month > 2 /\ isleap(year) THEN 1 ELSE 0)

\* date.toordinal()
toordinal(d) == days_before_year(d.year) + days_before_month(d.year, d.month) + d.day

\* date.weekday(): Monday is 0
weekday_of_ordinal(n) == (n + 6) % 7
weekday(d) == weekday_of_ordinal(toordinal(d))

RECURSIVE month_of_yday(_, _, _)
\* the month holding the 0-based day `yd` of `year`, searching from `month`
month_of_yday(year, month, yd) ==
    IF yd < days_before_month(year, month) + daysinmonth(year, month) THEN month
    ELSE month_of_yday(year, month + 1, yd)

\* date.fromordinal(n), as <<year, month, day>>
fromordinal(n) ==
    LET n0   == n - 1
        n400 == n0 \div 146097
        r400 == n0 % 146097
        n100 == r400 \div 36524
        r100 == r400 % 36524
        n4   == r100 \div 1461
        r4   == r100 % 1461
        n1   == r4 \div 365
        r1   == r4 % 365
        y    == n400 * 400 + n100 * 100 + n4 * 4 + n1 + 1
    IN IF n1 = 4 \/ n100 = 4 THEN <<y - 1, 12, 31>>
       ELSE LET m == month_of_yday(y, 1, r1)
            IN <<y, m, r1 - days_before_month(y, m) + 1>>

datetime(year, month, day, hour, minute) ==
    [year |-> year, month |-> month, day |-> day, hour |-> hour, minute |-> minute]

date(year, month, day) == datetime(year, month, day, 0, 0)

\* datetime + timedelta(days, hours, minutes)
add_timedelta(d, days, hours, minutes) ==
    LET mins == d.hour * 60 + d.minute + hours * 60 + minutes
        ymd  == fromordinal(toordinal(d) + days + (mins \div 1440))
        m    == mins % 1440
    IN datetime(ymd[1], ymd[2], ymd[3], m \div 60, m % 60)

\* the order of naive datetimes: minutes since 0001-01-01 00:00
stamp(d) == ((toordinal(d) - 1) * 24 + d.hour) * 60 + d.minute

(***************************************************************************)
(* relativedelta: relative fields (plural, added), absolute fields         *)
(* (singular, set) and a weekday with its ordinal n (0 stands for the      *)
(* default, n = None; weekday(n=0) cannot be constructed).                 *)
(***************************************************************************)
weekday_n(wd, n) == [weekday |-> wd, n |-> n]

\* the keyword arguments of relativedelta(), each at its default
kwargs ==
    [years |-> 0, months |-> 0, days |-> 0, leapdays |-> 0, hours |-> 0, minutes |-> 0,
     year |-> None, month |-> None, day |-> None, hour |-> None, minute |-> None,
     weekday |-> None]

\* relativedelta._fix: carry minutes into hours, hours into days, months into years
fix(rd) ==
    LET a == IF Abs(rd.minutes) > 59
             THEN LET s == Sign(rd.minutes)
                  IN [rd EXCEPT !.minutes = ((rd.minutes * s) % 60) * s,
                                !.hours = rd.hours + ((rd.minutes * s) \div 60) * s]
             ELSE rd
        b == IF Abs(a.hours) > 23
             THEN LET s == Sign(a.hours)
                  IN [a EXCEPT !.hours = ((a.hours * s) % 24) * s,
                               !.days = a.days + ((a.hours * s) \div 24) * s]
             ELSE a
    IN IF Abs(b.months) > 11
       THEN LET s == Sign(b.months)
            IN [b EXCEPT !.months = ((b.months * s) % 12) * s,
                         !.years = b.years + ((b.months * s) \div 12) * s]
       ELSE b

\* relativedelta(**kw)
relativedelta(kw) == fix(kw)

\* relativedelta.__add__(self, other) for another relativedelta
add(self, other) ==
    relativedelta(
        [years |-> other.years + self.years, months |-> other.months + self.months,
         days |-> other.days + self.days, hours |-> other.hours + self.hours,
         minutes |-> other.minutes + self.minutes,
         leapdays |-> IF other.leapdays # 0 THEN other.leapdays ELSE self.leapdays,
         year |-> IF other.year # None THEN other.year ELSE self.year,
         month |-> IF other.month # None THEN other.month ELSE self.month,
         day |-> IF other.day # None THEN other.day ELSE self.day,
         hour |-> IF other.hour # None THEN other.hour ELSE self.hour,
         minute |-> IF other.minute # None THEN other.minute ELSE self.minute,
         weekday |-> IF other.weekday # None THEN other.weekday ELSE self.weekday])

\* relativedelta.__neg__: the relative fields change sign, nothing else changes
neg_reversing_weekday(self) ==
    relativedelta([self EXCEPT !.years = -self.years, !.months = -self.months,
                               !.days = -self.days, !.hours = -self.hours,
                               !.minutes = -self.minutes,
                               !.weekday = IF self.weekday = None THEN None
                                           ELSE LET wd == Get(self.weekday)
                                                IN Some(weekday_n(wd.weekday,
                                                        IF wd.n = 0 THEN -1 ELSE -wd.n))])
neg_dropping_weekday(self) ==
    relativedelta([self EXCEPT !.years = -self.years, !.months = -self.months,
                               !.days = -self.days, !.hours = -self.hours,
                               !.minutes = -self.minutes, !.weekday = None])
neg(self) ==
    relativedelta([self EXCEPT !.years = -self.years, !.months = -self.months,
                               !.days = -self.days, !.hours = -self.hours,
                               !.minutes = -self.minutes])

\* relativedelta.__mul__ by an integer: the relative fields are scaled
mul_years_only(self, f) == relativedelta([self EXCEPT !.years = self.years * f])
mul_scaling_weekday(self, f) ==
    relativedelta([self EXCEPT !.years = self.years * f, !.months = self.months * f,
                               !.days = self.days * f, !.hours = self.hours * f,
                               !.minutes = self.minutes * f,
                               !.weekday = IF self.weekday = None THEN None
                                           ELSE LET wd == Get(self.weekday)
                                                IN Some(weekday_n(wd.weekday,
                                                        (IF wd.n = 0 THEN 1 ELSE wd.n) * f))])
mul_scaling_day(self, f) ==
    relativedelta([self EXCEPT !.years = self.years * f, !.months = self.months * f,
                               !.days = self.days * f, !.hours = self.hours * f,
                               !.minutes = self.minutes * f,
                               !.day = IF self.day = None THEN None
                                       ELSE Some(Get(self.day) * f)])
mul(self, f) ==
    relativedelta([self EXCEPT !.years = self.years * f, !.months = self.months * f,
                               !.days = self.days * f, !.hours = self.hours * f,
                               !.minutes = self.minutes * f])

\* the year, month and day that datetime + relativedelta replaces into the datetime
radd_year(self, other) == OrElse(self.year, other.year) + self.years
radd_ym(self, other) ==
    LET year  == radd_year(self, other)
        month == OrElse(self.month, other.month) + self.months
    IN IF self.months = 0 THEN <<year, month>>
       ELSE IF month > 12 THEN <<year + 1, month - 12>>
       ELSE IF month < 1 THEN <<year - 1, month + 12>>
       ELSE <<year, month>>

\* day = min(calendar.monthrange(year, month)[1], self.day or other.day)
radd_day_rollover(self, other, year, month) ==
    LET day == OrElse(self.day, other.day)
    IN IF day > daysinmonth(year, month) THEN 1 ELSE day
radd_day(self, other, year, month) ==
    Min(daysinmonth(year, month), OrElse(self.day, other.day))

\* what other.replace(**repl) is given
radd_repl(self, other) ==
    LET ym == radd_ym(self, other)
    IN datetime(ym[1], ym[2], radd_day(self, other, ym[1], ym[2]),
                IF self.hour # None THEN Get(self.hour) ELSE other.hour,
                IF self.minute # None THEN Get(self.minute) ELSE other.minute)

\* datetime.replace (and calendar.monthrange before it) raises ValueError
\* for a field outside its domain
replace_raises(r) ==
    \/ r.year < 1 \/ r.year > 9999
    \/ r.month < 1 \/ r.month > 12
    \/ r.day < 1 \/ r.day > daysinmonth(r.year, r.month)
    \/ r.hour < 0 \/ r.hour > 23
    \/ r.minute < 0 \/ r.minute > 59

radd_raises(self, other) ==
    LET ym == radd_ym(self, other)
    IN \/ ym[2] < 1 \/ ym[2] > 12
       \/ replace_raises(radd_repl(self, other))

\* the weekday jump: the n-th `weekday` on or after ret (n > 0), on or before (n < 0)
jumpdays_exclusive(wd, ret) ==
    LET nth == IF wd.n # 0 THEN wd.n ELSE 1
        wk  == (Abs(nth) - 1) * 7
    IN IF nth > 0 THEN wk + ((6 - weekday(ret) + wd.weekday) % 7) + 1
       ELSE -(wk + ((weekday(ret) - wd.weekday + 6) % 7) + 1)
jumpdays_forward(wd, ret) ==
    LET nth == IF wd.n # 0 THEN wd.n ELSE 1
        wk  == (Abs(nth) - 1) * 7
    IN wk + ((7 - weekday(ret) + wd.weekday) % 7)
jumpdays(wd, ret) ==
    LET nth == IF wd.n # 0 THEN wd.n ELSE 1
        wk  == (Abs(nth) - 1) * 7
    IN IF nth > 0 THEN wk + ((7 - weekday(ret) + wd.weekday) % 7)
       ELSE -(wk + ((weekday(ret) - wd.weekday) % 7))

\* relativedelta.__radd__: datetime + relativedelta
radd_weekday_from_other(self, other) ==
    LET repl == radd_repl(self, other)
        days == IF self.leapdays # 0 /\ repl.month > 2 /\ isleap(repl.year)
                THEN self.days + self.leapdays ELSE self.days
        ret  == add_timedelta(repl, days, self.hours, self.minutes)
    IN IF self.weekday = None THEN ret
       ELSE add_timedelta(ret, jumpdays(Get(self.weekday), other), 0, 0)
radd(self, other) ==
    LET repl == radd_repl(self, other)
        days == IF self.leapdays # 0 /\ repl.month > 2 /\ isleap(repl.year)
                THEN self.days + self.leapdays ELSE self.days
        ret  == add_timedelta(repl, days, self.hours, self.minutes)
    IN IF self.weekday = None THEN ret
       ELSE add_timedelta(ret, jumpdays(Get(self.weekday), ret), 0, 0)

\* relativedelta.__rsub__: datetime - relativedelta
rsub(self, other) == radd(neg(self), other)

(***************************************************************************)
(* rrule: a recurrence rule.  The frequencies of the workbooks' rules are  *)
(* modelled (YEARLY, MONTHLY, WEEKLY, DAILY), with the by-rules their      *)
(* cells pass: bymonth, bymonthday, byweekday, byhour, byminute, bysetpos. *)
(***************************************************************************)
YEARLY == 0
MONTHLY == 1
WEEKLY == 2
DAILY == 3
\* rrule._iter returns when its period passes the last year of datetime, 9999;
\* a generator of the model also returns after MaxPeriods periods
MaxPeriods == 10

\* the keyword arguments of rrule(), each at its default (a by-rule that is
\* not given is None; a given one is Some(set))
rrule_kwargs(freq, dtstart) ==
    [freq |-> freq, dtstart |-> dtstart, interval |-> 1, wkst |-> MO,
     count |-> None, until |-> None, bysetpos |-> None, bymonth |-> None,
     bymonthday |-> None, byweekday |-> None, byhour |-> None, byminute |-> None]

Given(o) == IF o = None THEN {} ELSE Get(o)

\* rrule.__init__: the defaults taken from dtstart and the split of the
\* by-rules into their positive / negative and plain / numbered parts
rrule(kw) ==
    LET nodays  == kw.bymonthday = None /\ kw.byweekday = None
        bymonth == IF nodays /\ kw.freq = YEARLY /\ kw.bymonth = None
                   THEN {kw.dtstart.month} ELSE Given(kw.bymonth)
        bymday  == IF nodays /\ kw.freq \in {YEARLY, MONTHLY}
                   THEN {kw.dtstart.day} ELSE Given(kw.bymonthday)
        bywday  == IF nodays /\ kw.freq = WEEKLY
                   THEN {weekday_n(weekday(kw.dtstart), 0)} ELSE Given(kw.byweekday)
        plain   == {w \in bywday : w.n = 0 \/ kw.freq > MONTHLY}
    IN [freq |-> kw.freq, dtstart |-> kw.dtstart, interval |-> kw.interval,
        wkst |-> kw.wkst, count |-> kw.count, until |-> kw.until,
        bysetpos |-> Given(kw.bysetpos),
        bymonth |-> bymonth,
        bymonthday |-> {d \in bymday : d > 0},
        bynmonthday |-> {d \in bymday : d < 0},
        byweekday |-> {w.weekday : w \in plain},
        bynweekday |-> {<<w.weekday, w.n>> : w \in bywday \ plain},
        byhour |-> IF kw.byhour = None THEN {kw.dtstart.hour} ELSE Get(kw.byhour),
        byminute |-> IF kw.byminute = None THEN {kw.dtstart.minute} ELSE Get(kw.byminute),
        original_rule |-> kw]

\* rrule.__init__ raises ValueError: a bysetpos that is 0 or outside -366 .. 366,
\* or, building the time set of a rule less frequent than hourly, an hour or
\* a minute that datetime.time does not take.  Nothing else is looked at: not
\* bymonth, not bymonthday.
rrule_raises(kw) ==
    \/ \E pos \in Given(kw.bysetpos) : pos = 0 \/ pos < -366 \/ pos > 366
    \/ \E h \in Given(kw.byhour) : h < 0 \/ h > 23
    \/ \E m \in Given(kw.byminute) : m < 0 \/ m > 59

\* rrule.__init__ warns (DeprecationWarning) and goes on when it is given both
\* count and until
rrule_warns(kw) == kw.count # None /\ kw.until # None

\* the arguments rrule.replace(**kwargs) passes to rrule(): those the receiver
\* was built with, those named in kwargs overridden
replace_kwargs(self, kw) ==
    [f \in DOMAIN self.original_rule |->
        IF f \in DOMAIN kw THEN kw[f] ELSE self.original_rule[f]]

\* rrule.replace(**kwargs): a new rule
replace(self, kw) == rrule(replace_kwargs(self, kw))

\* rule.replace(**kwargs) among the objects os, the receiver being os[i]: the
\* new rule is one more object
replaced_in_place(os, i, kw) ==
    Append([os EXCEPT ![i] = replace(os[i], kw)], replace(os[i], kw))
replaced(os, i, kw) == Append(os, replace(os[i], kw))

RECURSIVE SortedSeq(_)
\* the datetimes of a finite set, ascending
SortedSeq(S) ==
    IF S = {} THEN <<>>
    ELSE LET m == CHOOSE x \in S : \A y \in S : stamp(x) <= stamp(y)
         IN <<m>> \o SortedSeq(S \ {m})

\* _iterinfo.ydayset / mdayset / wdayset / ddayset: the ordinals of the days
\* of the period that holds year-month-day
RECURSIVE wdayset_end(_, _, _)
wdayset_end(i, j, wkst) ==
    IF j = 6 \/ weekday_of_ordinal(i + 1) = wkst THEN i
    ELSE wdayset_end(i + 1, j + 1, wkst)

getdayset(self, year, month, day) ==
    CASE self.freq = YEARLY ->
             toordinal(date(year, 1, 1)) .. toordinal(date(year, 12, 31))
      [] self.freq = MONTHLY ->
             toordinal(date(year, month, 1))
                 .. toordinal(date(year, month, daysinmonth(year, month)))
      [] self.freq = WEEKLY ->
             LET i == toordinal(date(year, month, day))
             IN i .. wdayset_end(i, 0, self.wkst)
      [] OTHER -> {toordinal(date(year, month, day))}

\* _iterinfo.rebuild: the ranges the numbered weekdays are counted in
nwday_ranges_whole_year(self, year, month) ==
    IF self.freq = YEARLY
    THEN {<<toordinal(date(year, 1, 1)), toordinal(date(year, 12, 31))>>}
    ELSE {<<toordinal(date(year, month, 1)),
            toordinal(date(year, month, daysinmonth(year, month)))>>}
nwday_ranges(self, year, month) ==
    IF self.freq = YEARLY
    THEN IF self.bymonth # {}
         THEN {<<toordinal(date(year, m, 1)), toordinal(date(year, m, daysinmonth(year, m)))>>
                 : m \in self.bymonth}
         ELSE {<<toordinal(date(year, 1, 1)), toordinal(date(year, 12, 31))>>}
    ELSE {<<toordinal(date(year, month, 1)),
            toordinal(date(year, month, daysinmonth(year, month)))>>}

\* the day a numbered weekday (wday, n) names in the range first .. last
nwday_in_range_forward(first, last, wday, n) ==
    LET i == first + (Abs(n) - 1) * 7
    IN i + ((7 - weekday_of_ordinal(i) + wday) % 7)
nwday_in_range(first, last, wday, n) ==
    IF n < 0
    THEN LET i == last + (n + 1) * 7
         IN i - ((weekday_of_ordinal(i) - wday) % 7)
    ELSE LET i == first + (n - 1) * 7
         IN i + ((7 - weekday_of_ordinal(i) + wday) % 7)

\* _iterinfo.nwdaymask[o]
nwdaymask(self, year, month, o) ==
    \E r \in nwday_ranges(self, year, month) : \E wn \in self.bynweekday :
        /\ nwday_in_range(r[1], r[2], wn[1], wn[2]) = o
        /\ r[1] <= o /\ o <= r[2]

\* the filter of rrule._iter: the day with ordinal o, which is the date ymd,
\* survives every by-rule
day_passes(self, year, month, o, ymd) ==
    /\ ~(self.bymonth # {} /\ ymd[2] \notin self.bymonth)
    /\ ~(self.byweekday # {} /\ weekday_of_ordinal(o) \notin self.byweekday)
    /\ ~(self.bynweekday # {} /\ ~nwdaymask(self, year, month, o))
    /\ ~(/\ self.bymonthday \cup self.bynmonthday # {}
         /\ ymd[3] \notin self.bymonthday
         /\ (ymd[3] - daysinmonth(ymd[1], ymd[2]) - 1) \notin self.bynmonthday)

RECURSIVE ascending(_)
ascending(S) ==
    IF S = {} THEN <<>>
    ELSE LET x == CHOOSE x \in S : \A y \in S : x <= y
         IN <<x>> \o ascending(S \ {x})

\* rrule._timeset, ascending, as minutes of the day
timeset(self) == ascending({h * 60 + m : h \in self.byhour, m \in self.byminute})

\* datetime.combine(date.fromordinal(o), time): ymd is the date, t the minutes
combine(ymd, t) == datetime(ymd[1], ymd[2], ymd[3], t \div 60, t % 60)

\* the bysetpos selection: the (day, time) that divmod(pos, len(timeset))
\* names among the k days of the period, if there is one
setpos_at(days, ts, k, daypos, timepos) ==
    IF daypos < -k \/ daypos >= k THEN {}
    ELSE {combine(fromordinal(CHOOSE d \in days :
                      Cardinality({e \in days : e < d})
                          = (IF daypos < 0 THEN daypos + k ELSE daypos)),
                  ts[timepos + 1])}

setpos_from_front(days, ts, p) == setpos_at(days, ts, Cardinality(days), 0, 0)
setpos_wrapping(days, ts, p) ==
    IF days = {} THEN {}
    ELSE setpos_at(days, ts, Cardinality(days),
                   (p \div Len(ts)) % Cardinality(days), p % Len(ts))
setpos(days, ts, p) == setpos_at(days, ts, Cardinality(days), p \div Len(ts), p % Len(ts))

\* the results of a period whose days are `days`, in the order they are visited
period_list(self, days, ts) ==
    IF self.bysetpos # {} /\ Len(ts) > 0
    THEN SortedSeq(UNION {setpos(days, ts, IF pos < 0 THEN pos ELSE pos - 1)
                             : pos \in self.bysetpos})
    ELSE SortedSeq({combine(fromordinal(o), ts[i]) : o \in days, i \in 1 .. Len(ts)})

\* the results of one period of rrule._iter
period_results(self, year, month, day) ==
    period_list(self,
                {o \in getdayset(self, year, month, day) :
                    day_passes(self, year, month, o, fromordinal(o))},
                timeset(self))

(***************************************************************************)
(* Iterators.  One record shape serves the three kinds of iterator:        *)
(*   "rrule"    the generator rrule._iter: the period it is in             *)
(*              (year, month, day, weekday), how many periods it visited,  *)
(*              the next position pos in the period's results, the count   *)
(*              left and the total yielded;                                *)
(*   "list"     the iterator over a sorted list of datetimes (rest);       *)
(*   "rruleset" the generator rruleset._iter: the included items rlist,    *)
(*              the excluded items exlist and the last datetime seen.      *)
(* An item of rlist / exlist is [dt, gen]: its current datetime and the    *)
(* iterator that produces its next one.                                    *)
(***************************************************************************)
iterator(kind) ==
    [kind |-> kind, rule |-> None, year |-> 0, month |-> 0, day |-> 0, weekday |-> 0,
     visited |-> 1, pos |-> 1, count |-> None, total |-> 0, done |-> FALSE,
     rest |-> <<>>, rlist |-> <<>>, exlist |-> <<>>, lastdt |-> None]

\* iter(rule): a fresh generator, at the period of dtstart
rrule_iter(self) ==
    [iterator("rrule") EXCEPT
        !.rule = Some(self), !.year = self.dtstart.year, !.month = self.dtstart.month,
        !.day = self.dtstart.day, !.weekday = weekday(self.dtstart),
        !.count = self.count]

list_iter(l) == [iterator("list") EXCEPT !.rest = l]

\* the first next() of the generator raises ValueError: _iterinfo.rebuild
\* takes, for a yearly rule with numbered weekdays, the range of each month
\* of bymonth from a table of the twelve months, and unpacks it as a pair
iter_raises(self) ==
    /\ self.freq = YEARLY /\ self.bynweekday # {}
    /\ \E m \in self.bymonth : m < 1 \/ m > 12

RECURSIVE fixday(_, _, _)
\* the day carried into the following months while it is past the month's end
fixday(year, month, day) ==
    IF day > 28 /\ day > daysinmonth(year, month)
    THEN IF month = 12 THEN fixday(year + 1, 1, day - daysinmonth(year, month))
         ELSE fixday(year, month + 1, day - daysinmonth(year, month))
    ELSE <<year, month, day>>

\* rrule._iter, "Handle frequency and interval": the generator moves to the
\* next period
next_period(self, g) ==
    CASE self.freq = YEARLY -> [g EXCEPT !.year = g.year + self.interval, !.pos = 1]
      [] self.freq = MONTHLY ->
             LET m == g.month + self.interval
             IN IF m > 12
                THEN IF m % 12 = 0
                     THEN [g EXCEPT !.month = 12, !.year = g.year + (m \div 12) - 1, !.pos = 1]
                     ELSE [g EXCEPT !.month = m % 12, !.year = g.year + (m \div 12), !.pos = 1]
                ELSE [g EXCEPT !.month = m, !.pos = 1]
      [] self.freq = WEEKLY ->
             LET d == IF self.wkst > g.weekday
                      THEN g.day - (g.weekday + 1 + (6 - self.wkst)) + self.interval * 7
                      ELSE g.day - (g.weekday - self.wkst) + self.interval * 7
                 f == fixday(g.year, g.month, d)
             IN [g EXCEPT !.year = f[1], !.month = f[2], !.day = f[3],
                          !.weekday = self.wkst, !.pos = 1]
      [] OTHER ->
             LET f == fixday(g.year, g.month, g.day + self.interval)
             IN [g EXCEPT !.year = f[1], !.month = f[2], !.day = f[3], !.pos = 1]

(***************************************************************************)
(* The rules of the recurring-events workbook.                             *)
(***************************************************************************)
end_of_month ==
    rrule([rrule_kwargs(MONTHLY, date(2019, 3, 1)) EXCEPT
              !.bymonthday = Some({28, 29, 30, 31}), !.bysetpos = Some({-1}),
              !.until = Some(date(2019, 7, 1))])

last_friday ==
    rrule([rrule_kwargs(MONTHLY, date(2019, 3, 1)) EXCEPT
              !.byweekday = Some({weekday_n(FR, -1)}),
              !.until = Some(date(2019, 7, 1))])

every_sunday ==
    rrule([rrule_kwargs(WEEKLY, date(2019, 4, 15)) EXCEPT
              !.byweekday = Some({weekday_n(SU, 0)})])

mothers_day ==
    rrule([rrule_kwargs(YEARLY, date(2019, 4, 15)) EXCEPT
              !.bymonth = Some({5}), !.byweekday = Some({weekday_n(SU, 2)})])

every_friday ==
    rrule([rrule_kwargs(WEEKLY, date(2019, 9, 1)) EXCEPT
              !.byweekday = Some({weekday_n(FR, 0)}), !.byhour = Some({9, 17})])

friday_13th == replace(every_friday, [bymonthday |-> Some({13})])

meeting ==
    rrule([rrule_kwargs(WEEKLY, datetime(2019, 4, 15, 14, 0)) EXCEPT
              !.byweekday = Some({weekday_n(WE, 0)}),
              !.until = Some(date(2020, 8, 1))])

\* the rule of the time-zone workbook, by its wall-clock datetimes
closing_times ==
    rrule([rrule_kwargs(DAILY, datetime(2017, 3, 9, 17, 0)) EXCEPT
              !.byweekday = Some({weekday_n(w, 0) : w \in {MO, TU, WE, TH, FR}}),
              !.byhour = Some({17}), !.count = Some(5)])

(***************************************************************************)
(* The rules cells construct from arguments of their own, some of them     *)
(* malformed, and derive with rule.replace(...).                           *)
(***************************************************************************)
MaxCalls == 2   \* rrule(...) and rule.replace(...) calls

\* closing_times with an end bound next to its count
count_and_until == [closing_times.original_rule EXCEPT !.until = Some(date(2017, 3, 31))]
\* a month and an hour outside their domains
month_13 == [rrule_kwargs(YEARLY, date(2019, 4, 15)) EXCEPT !.bymonth = Some({13})]
hour_25 == [closing_times.original_rule EXCEPT !.byhour = Some({25})]

\* the keyword arguments passed to rrule()
BuildKwargs ==
    {every_friday.original_rule, mothers_day.original_rule, end_of_month.original_rule,
     count_and_until, month_13, hour_25}

\* the keyword arguments passed to rule.replace()
ReplaceKwargs ==
    {[bymonthday |-> Some({13})], [bymonth |-> Some({13})], [byhour |-> Some({25})],
     [bysetpos |-> Some({4})], [bysetpos |-> Some({-4})]}

RECURSIVE replaced_kwargs(_, _)
\* the arguments of the rules that up to n successful replace() calls derive
\* from the rules of the arguments in S
replaced_kwargs(S, n) ==
    IF n = 0 THEN S
    ELSE replaced_kwargs(
             S \cup {k \in {replace_kwargs(rrule(x[1]), x[2]) : x \in S \X ReplaceKwargs} :
                        ~rrule_raises(k)},
             n - 1)

\* the rules the cells can construct and traverse
ConstructedRules ==
    {r \in {rrule(k) : k \in replaced_kwargs({k \in BuildKwargs : ~rrule_raises(k)},
                                            MaxCalls - 1)} :
        ~iter_raises(r)}

\* The periods of the workbook's rules are worked out once: the period that
\* holds year-month-day, for every period a generator visits.
WorkbookRules ==
    {end_of_month, last_friday, every_sunday, mothers_day, every_friday, friday_13th,
     meeting, closing_times}

RECURSIVE periods_from(_, _)
periods_from(self, g) ==
    {<<g.year, g.month, g.day>>}
        \cup IF g.visited >= MaxPeriods THEN {}
             ELSE periods_from(self, [next_period(self, g) EXCEPT !.visited = g.visited + 1])

results_table ==
    [r \in WorkbookRules \cup ConstructedRules |->
        [p \in periods_from(r, rrule_iter(r)) |-> period_results(r, p[1], p[2], p[3])]]

lookup(table, self, p) ==
    IF self \in DOMAIN table /\ p \in DOMAIN table[self]
    THEN table[self][p]
    ELSE period_results(self, p[1], p[2], p[3])

\* the results of the period that holds year-month-day
candidates(self, year, month, day) == lookup(results_table, self, <<year, month, day>>)

yielded(g, v) == [gen |-> g, value |-> Some(v)]
stopped(g) == [gen |-> [g EXCEPT !.done = TRUE], value |-> None]

RECURSIVE rrule_next(_, _)
RECURSIVE rrule_visit(_, _, _)
RECURSIVE rrule_result(_, _, _)
RECURSIVE rrule_advance(_, _, _)

\* rrule._iter at a result res of the period: past until the generator
\* returns, before dtstart the result is passed over, with the count used up
\* the generator returns, else res is yielded
rrule_result_uncounted(self, g, res) ==
    IF self.until # None /\ stamp(res) > stamp(Get(self.until)) THEN stopped(g)
    ELSE IF stamp(res) < stamp(self.dtstart)
    THEN rrule_next(self, [g EXCEPT !.pos = g.pos + 1])
    ELSE yielded([g EXCEPT !.pos = g.pos + 1, !.total = g.total + 1], res)
rrule_result(self, g, res) ==
    IF self.until # None /\ stamp(res) > stamp(Get(self.until)) THEN stopped(g)
    ELSE IF stamp(res) < stamp(self.dtstart)
    THEN rrule_next(self, [g EXCEPT !.pos = g.pos + 1])
    ELSE IF g.count = None
    THEN yielded([g EXCEPT !.pos = g.pos + 1, !.total = g.total + 1], res)
    ELSE IF Get(g.count) - 1 < 0 THEN stopped(g)
    ELSE yielded([g EXCEPT !.pos = g.pos + 1, !.count = Some(Get(g.count) - 1),
                           !.total = g.total + 1], res)

\* rrule._iter after the last result of a period: on to the period h
rrule_advance(self, g, h) ==
    IF h.year > 9999 \/ g.visited >= MaxPeriods THEN stopped(g)
    ELSE rrule_next(self, [h EXCEPT !.visited = g.visited + 1])

\* rrule._iter in a period whose results are c
rrule_visit(self, g, c) ==
    IF g.pos <= Len(c) THEN rrule_result(self, g, c[g.pos])
    ELSE rrule_advance(self, g, next_period(self, g))

\* next(gen) for the generator rrule._iter: the generator after it ran to its
\* next yield (value is Some(datetime)) or to its return (value is None)
rrule_next(self, g) ==
    IF g.done THEN stopped(g)
    ELSE rrule_visit(self, g, candidates(self, g.year, g.month, g.day))

\* the item of a heap of items that heapq keeps at index 0: the least datetime
\* (among equal datetimes, the earliest in the list)
heap0(l) ==
    LET at == [i \in 1 .. Len(l) |-> stamp(l[i].dt)]
    IN CHOOSE i \in 1 .. Len(l) :
           \A j \in 1 .. Len(l) : at[i] < at[j] \/ (at[i] = at[j] /\ i <= j)

RemoveAt(l, i) == SubSeq(l, 1, i - 1) \o SubSeq(l, i + 1, Len(l))

RECURSIVE next(_)
RECURSIVE advance_iterator(_, _)
RECURSIVE skip_excluded(_, _)
RECURSIVE skip_excluded_through(_, _)
RECURSIVE genitems(_, _)
RECURSIVE rruleset_visit(_, _, _)
RECURSIVE rruleset_yield(_, _, _)

\* item i of the list l after next() on its iterator gave r
advanced(l, i, r) ==
    IF r.value = None THEN RemoveAt(l, i)
    ELSE [l EXCEPT ![i] = [dt |-> Get(r.value), gen |-> r.gen]]

\* _iterinfo.__next__ / advance_iterator: item i of the list l takes the next
\* datetime of its iterator, or leaves the list when the iterator is exhausted
advance_iterator(l, i) == advanced(l, i, next(l[i].gen))

\* rruleset._iter: the excluded items that are before dt are advanced past
skip_excluded_through(exlist, d) ==
    IF exlist # <<>> /\ stamp(exlist[heap0(exlist)].dt) <= stamp(d)
    THEN skip_excluded_through(advance_iterator(exlist, heap0(exlist)), d)
    ELSE exlist
skip_excluded(exlist, d) ==
    IF exlist # <<>> /\ stamp(exlist[heap0(exlist)].dt) < stamp(d)
    THEN skip_excluded(advance_iterator(exlist, heap0(exlist)), d)
    ELSE exlist

\* rruleset._genitem: an item for the iterator whose first next() gave r,
\* unless it is exhausted at once
genitem(l, r) ==
    IF r.value = None THEN l ELSE Append(l, [dt |-> Get(r.value), gen |-> r.gen])

\* rruleset._genitem for each iterator of its
genitems(l, its) ==
    IF its = <<>> THEN l ELSE genitems(genitem(l, next(Head(its))), Tail(its))

\* whether rruleset._iter yields the item's datetime: it is not the datetime
\* last seen, and the first excluded item does not carry it
is_new_ignoring_last(g, ex, d) ==
    ex = <<>> \/ stamp(d) # stamp(ex[heap0(ex)].dt)
is_new(g, ex, d) ==
    /\ g.lastdt = None \/ stamp(Get(g.lastdt)) # stamp(d)
    /\ ex = <<>> \/ stamp(d) # stamp(ex[heap0(ex)].dt)

\* rruleset._iter, the end of one turn of its loop: the datetime d is yielded
\* or passed over; h is the generator after the turn
rruleset_yield(it, d, h) ==
    IF is_new(it, h.exlist, d) THEN yielded([h EXCEPT !.total = it.total + 1], d)
    ELSE next(h)

\* rruleset._iter, one turn of its loop, for the item i of rlist, whose
\* datetime is d
rruleset_visit(it, i, d) ==
    rruleset_yield(it, d,
        [it EXCEPT !.rlist = advance_iterator(it.rlist, i),
                   !.exlist = IF it.lastdt = None \/ stamp(Get(it.lastdt)) # stamp(d)
                              THEN skip_excluded(it.exlist, d) ELSE it.exlist,
                   !.lastdt = Some(d)])

\* next(it)
next(it) ==
    CASE it.kind = "rrule" -> rrule_next(Get(it.rule), it)
      [] it.kind = "list" ->
             IF it.rest = <<>> THEN stopped(it)
             ELSE yielded([it EXCEPT !.rest = Tail(it.rest)], Head(it.rest))
      [] OTHER ->
             IF it.done \/ it.rlist = <<>> THEN stopped(it)
             ELSE rruleset_visit(it, heap0(it.rlist), it.rlist[heap0(it.rlist)].dt)

\* list.sort() on a list of datetimes
RECURSIVE sort(_)
sort(l) ==
    IF l = <<>> THEN <<>>
    ELSE LET i == CHOOSE i \in 1 .. Len(l) :
                      \A j \in 1 .. Len(l) :
                          \/ stamp(l[i]) < stamp(l[j])
                          \/ (stamp(l[i]) = stamp(l[j]) /\ i <= j)
         IN <<l[i]>> \o sort(RemoveAt(l, i))

\* rruleset(): the four lists, empty
rruleset == [rrule |-> <<>>, rdate |-> <<>>, exrule |-> <<>>, exdate |-> <<>>]

\* iter(rule), rrulebase.__iter__: a rule built without a cache (none of the
\* workbooks' rules asks for one) hands out a new generator each time
iter_resumed(self) == IF gens # <<>> THEN gens[Len(gens)] ELSE rrule_iter(self)
iter(self) == rrule_iter(self)

RECURSIVE iters(_)
iters(rules) == IF rules = <<>> THEN <<>> ELSE <<iter(Head(rules))>> \o iters(Tail(rules))

\* iter(rrs): rruleset._iter up to its loop; the explicit dates are sorted first
rruleset_iter_without_exrule(self) ==
    [iterator("rruleset") EXCEPT
        !.rlist = genitems(<<>>, <<list_iter(sort(self.rdate))>> \o iters(self.rrule)),
        !.exlist = genitems(<<>>, <<list_iter(sort(self.exdate))>>)]
rruleset_iter_without_exdate(self) ==
    [iterator("rruleset") EXCEPT
        !.rlist = genitems(<<>>, <<list_iter(sort(self.rdate))>> \o iters(self.rrule)),
        !.exlist = genitems(<<>>, iters(self.exrule))]
rruleset_iter(self) ==
    [iterator("rruleset") EXCEPT
        !.rlist = genitems(<<>>, <<list_iter(sort(self.rdate))>> \o iters(self.rrule)),
        !.exlist = genitems(<<>>, <<list_iter(sort(self.exdate))>> \o iters(self.exrule))]

\* what iterating leaves in the set: rruleset._iter sorts the two date lists
iterated(self) == [self EXCEPT !.rdate = sort(self.rdate), !.exdate = sort(self.exdate)]

RECURSIVE between_loop(_, _, _, _, _, _)
RECURSIVE between_item(_, _, _, _, _, _, _)

\* rrulebase.between, the body of its loop for the datetime i; gen is the
\* iterator after it yielded i. The loop gives the list l it returns and the
\* iterator as the loop leaves it.
between_item_exhausting(gen, i, after, before, inc, started, l) ==
    IF (inc /\ stamp(i) > stamp(before)) \/ (~inc /\ stamp(i) >= stamp(before))
    THEN between_loop(gen, after, before, inc, started, l)
    ELSE IF started \/ (inc /\ stamp(i) >= stamp(after)) \/ (~inc /\ stamp(i) > stamp(after))
    THEN between_loop(gen, after, before, inc, TRUE, Append(l, i))
    ELSE between_loop(gen, after, before, inc, FALSE, l)
between_item(gen, i, after, before, inc, started, l) ==
    IF (inc /\ stamp(i) > stamp(before)) \/ (~inc /\ stamp(i) >= stamp(before))
    THEN [l |-> l, gen |-> gen]
    ELSE IF started \/ (inc /\ stamp(i) >= stamp(after)) \/ (~inc /\ stamp(i) > stamp(after))
    THEN between_loop(gen, after, before, inc, TRUE, Append(l, i))
    ELSE between_loop(gen, after, before, inc, FALSE, l)

between_turn(r, after, before, inc, started, l) ==
    IF r.value = None THEN [l |-> l, gen |-> r.gen]
    ELSE between_item(r.gen, Get(r.value), after, before, inc, started, l)

\* rrulebase.between(after, before, inc): the loop over the iterator gen
between_loop(gen, after, before, inc, started, l) ==
    between_turn(next(gen), after, before, inc, started, l)

between(gen, after, before, inc) == between_loop(gen, after, before, inc, FALSE, <<>>).l

\* the iterator as between() leaves it
between_left(gen, after, before, inc) == between_loop(gen, after, before, inc, FALSE, <<>>).gen

RECURSIVE after_loop(_, _, _)
after_turn(r, d, inc) ==
    IF r.value = None THEN None
    ELSE IF (inc /\ stamp(Get(r.value)) >= stamp(d)) \/ (~inc /\ stamp(Get(r.value)) > stamp(d))
    THEN r.value
    ELSE after_loop(r.gen, d, inc)

\* rrulebase.after(dt, inc): the first recurrence after dt, or None
after_loop(gen, d, inc) == after_turn(next(gen), d, inc)

RECURSIVE before_loop(_, _, _, _)
before_turn(r, d, inc, last) ==
    IF r.value = None THEN last
    ELSE IF (inc /\ stamp(Get(r.value)) > stamp(d)) \/ (~inc /\ stamp(Get(r.value)) >= stamp(d))
    THEN last
    ELSE before_loop(r.gen, d, inc, r.value)

\* rrulebase.before(dt, inc): the last recurrence before dt, or None
before_loop(gen, d, inc, last) == before_turn(next(gen), d, inc, last)

RECURSIVE list_loop(_, _)
list_turn(r, l) == IF r.value = None THEN l ELSE list_loop(r.gen, Append(l, Get(r.value)))

\* list(gen): every datetime the iterator yields
list_loop(gen, l) == list_turn(next(gen), l)

(***************************************************************************)
(* The calendar-arithmetic workbook: a cell builds a relativedelta, may    *)
(* scale, negate or combine it, and adds it to or subtracts it from a      *)
(* datetime, possibly several times in sequence.                           *)
(***************************************************************************)
MaxDerive == 1   \* derivations (scale, negate, combine) of one relativedelta
MaxApply == 2    \* additions and subtractions applied in sequence

Weekdays == {MO, TU, WE, TH, FR, SA, SU}

\* the keyword arguments the workbook's cells and exercises pass to relativedelta()
DeltaKwargs ==
    {[kwargs EXCEPT !.day = Some(30)],
     [kwargs EXCEPT !.months = 1],
     [kwargs EXCEPT !.months = 1, !.day = Some(1)],
     [kwargs EXCEPT !.month = Some(5), !.day = Some(1), !.weekday = Some(weekday_n(SU, 2))],
     [kwargs EXCEPT !.weekday = Some(weekday_n(FR, 0))],
     [kwargs EXCEPT !.weekday = Some(weekday_n(FR, 2))],
     [kwargs EXCEPT !.month = Some(3), !.day = Some(3)],
     [kwargs EXCEPT !.year = Some(1951)],
     [kwargs EXCEPT !.hour = Some(12), !.minute = Some(15)],
     [kwargs EXCEPT !.days = 28]}
    \cup {[kwargs EXCEPT !.weekday = Some(weekday_n(w, n))] : w \in Weekdays, n \in {-1, 1}}
    \cup {[kwargs EXCEPT !.weekday = Some(weekday_n(w, n))] : w \in {TU, FR}, n \in {-2, 2}}

\* what a built relativedelta is combined with
Addends == {[kwargs EXCEPT !.months = 1], [kwargs EXCEPT !.day = Some(1)]}

\* the integers a relativedelta is multiplied by
Factors == {-1, 2, 3}

\* the datetimes the cells start from
Dates ==
    {date(2015, 2, d) : d \in {1, 14, 27, 28}}
    \cup {date(2016, 2, d) : d \in {1, 15, 28, 29}}
    \cup {date(1900, 2, 1), date(1900, 2, 28), date(2000, 2, 1), date(2000, 2, 29)}
    \cup {date(1975, 12, d) : d \in 26 .. 31} \cup {date(1976, 1, 1)}
    \cup {date(2020, 3, 31), date(2019, 2, 7), date(2019, 3, 1), date(2019, 1, 31),
          date(2018, 1, 1), date(2019, 1, 1), date(2020, 1, 1)}

step(op, kw, f) == [op |-> op, kw |-> kw, f |-> f]

\* a cell that prints nothing
NoOutput == [call |-> "none", after |-> None, before |-> None, value |-> <<>>]

SetIdle == rrs = rruleset

\* before the first between(): no answer remembered
Unseen == [call |-> "none"]

RuleIdle ==
    /\ rule = end_of_month /\ len = None
    /\ gens = <<>> /\ yields = <<>> /\ seen = Unseen

\* no cell has listed a rule or put one in a set
NotAsked == [call |-> "none", rrule |-> 0, exrule |-> 0, exc |-> "None"]

BuildIdle == objs = <<>> /\ calls = <<>> /\ asked = NotAsked

AwareIdle == tzs = <<>> /\ dts = <<>> /\ cmp = {}

DeltaInit ==
    /\ SetIdle /\ RuleIdle /\ BuildIdle /\ AwareIdle /\ out = NoOutput
    /\ dt0 \in Dates
    /\ dt = dt0
    /\ \E kw \in DeltaKwargs :
          /\ delta = relativedelta(kw)
          /\ recipe = <<step("relativedelta", kw, 0)>>
    /\ trail = <<>>
    /\ exc = "None"

\* delta * f
Mul(f) ==
    /\ trail = <<>> /\ Len(recipe) <= MaxDerive
    /\ delta' = mul(delta, f)
    /\ recipe' = Append(recipe, step("mul", kwargs, f))
    /\ UNCHANGED <<dt, dt0, trail, exc, out, setVars, ruleVars, buildVars, awareVars>>

\* -delta
Neg ==
    /\ trail = <<>> /\ Len(recipe) <= MaxDerive
    /\ delta' = neg(delta)
    /\ recipe' = Append(recipe, step("neg", kwargs, 0))
    /\ UNCHANGED <<dt, dt0, trail, exc, out, setVars, ruleVars, buildVars, awareVars>>

\* delta + relativedelta(**kw)
Combine(kw) ==
    /\ trail = <<>> /\ Len(recipe) <= MaxDerive
    /\ delta' = add(delta, relativedelta(kw))
    /\ recipe' = Append(recipe, step("add", kw, 0))
    /\ UNCHANGED <<dt, dt0, trail, exc, out, setVars, ruleVars, buildVars, awareVars>>

\* dt + delta
Add ==
    /\ Len(trail) < MaxApply /\ exc = "None"
    /\ trail' = Append(trail, "add")
    /\ IF radd_raises(delta, dt)
       THEN exc' = "ValueError" /\ dt' = dt
       ELSE exc' = "None" /\ dt' = radd(delta, dt)
    /\ UNCHANGED <<dt0, delta, recipe, out, setVars, ruleVars, buildVars, awareVars>>

\* dt - delta
Sub ==
    /\ Len(trail) < MaxApply /\ exc = "None"
    /\ trail' = Append(trail, "sub")
    /\ IF radd_raises(neg(delta), dt)
       THEN exc' = "ValueError" /\ dt' = dt
       ELSE exc' = "None" /\ dt' = rsub(delta, dt)
    /\ UNCHANGED <<dt0, delta, recipe, out, setVars, ruleVars, buildVars, awareVars>>

DeltaNext ==
    \/ \E f \in Factors : Mul(f)
    \/ Neg
    \/ \E kw \in Addends : Combine(kw)
    \/ Add
    \/ Sub

SpecDelta == DeltaInit /\ [][DeltaNext]_vars

(***************************************************************************)
(* The recurring-events workbook: cells add rules and datetimes to an      *)
(* rruleset, or exclude them, and print the set or a window of it.         *)
(***************************************************************************)
MaxMembers == 2   \* rules and datetimes added to one rruleset

SetRules == {end_of_month, last_friday, every_sunday, mothers_day, meeting}

SetDates == {datetime(2019, 6, 12, 14, 0), datetime(2019, 6, 13, 10, 0), date(2019, 5, 31)}

\* the (after, before) pairs the cells pass to between()
Windows ==
    {<<date(2019, 6, 4), date(2019, 6, 20)>>,
     <<date(2019, 4, 15), date(2019, 6, 1)>>}

DeltaIdle ==
    /\ dt0 = date(2019, 1, 1) /\ dt = dt0
    /\ delta = relativedelta(kwargs)
    /\ recipe = <<step("relativedelta", kwargs, 0)>>
    /\ trail = <<>> /\ exc = "None"

members(s) == Len(s.rrule) + Len(s.rdate) + Len(s.exrule) + Len(s.exdate)

SetInit == DeltaIdle /\ RuleIdle /\ BuildIdle /\ AwareIdle /\ rrs = rruleset /\ out = NoOutput

\* rrs.rrule(r)
rruleset_rrule(r) ==
    /\ members(rrs) < MaxMembers
    /\ rrs' = [rrs EXCEPT !.rrule = Append(@, r)]
    /\ out' = NoOutput
    /\ UNCHANGED <<deltaVars, ruleVars, buildVars, awareVars>>

\* rrs.rdate(d)
rruleset_rdate(d) ==
    /\ members(rrs) < MaxMembers
    /\ rrs' = [rrs EXCEPT !.rdate = Append(@, d)]
    /\ out' = NoOutput
    /\ UNCHANGED <<deltaVars, ruleVars, buildVars, awareVars>>

\* rrs.exrule(r)
rruleset_exrule(r) ==
    /\ members(rrs) < MaxMembers
    /\ rrs' = [rrs EXCEPT !.exrule = Append(@, r)]
    /\ out' = NoOutput
    /\ UNCHANGED <<deltaVars, ruleVars, buildVars, awareVars>>

\* rrs.exdate(d)
rruleset_exdate(d) ==
    /\ members(rrs) < MaxMembers
    /\ rrs' = [rrs EXCEPT !.exdate = Append(@, d)]
    /\ out' = NoOutput
    /\ UNCHANGED <<deltaVars, ruleVars, buildVars, awareVars>>

\* print_dtlist(rrs.between(after, before))
rruleset_between(a, b) ==
    /\ out' = [call |-> "between", after |-> Some(a), before |-> Some(b),
               value |-> between(rruleset_iter(rrs), a, b, FALSE)]
    /\ rrs' = iterated(rrs)
    /\ UNCHANGED <<deltaVars, ruleVars, buildVars, awareVars>>

\* print_dtlist(rrs): the whole set
rruleset_list ==
    /\ out' = [call |-> "list", after |-> None, before |-> None,
               value |-> list_loop(rruleset_iter(rrs), <<>>)]
    /\ rrs' = iterated(rrs)
    /\ UNCHANGED <<deltaVars, ruleVars, buildVars, awareVars>>

SetNext ==
    \/ \E r \in SetRules : rruleset_rrule(r)
    \/ \E d \in SetDates : rruleset_rdate(d)
    \/ \E r \in SetRules : rruleset_exrule(r)
    \/ \E d \in SetDates : rruleset_exdate(d)
    \/ \E w \in Windows : rruleset_between(w[1], w[2])
    \/ rruleset_list

SpecSet == SetInit /\ [][SetNext]_vars

(***************************************************************************)
(* Traversals and queries of one rule: cells call iter(rule) and next() on *)
(* the generators, and rule.between / after / before / list(rule).         *)
(***************************************************************************)
MaxIters == 2   \* generators taken from one rule
MaxNext == 4    \* datetimes taken from the generators, in all

\* the rules the cells traverse
QueriedRules == {end_of_month, every_sunday, mothers_day, every_friday, closing_times}

\* the windows of between(), in days after the rule's dtstart
WindowDays == {<<0, 47>>, <<0, 30>>}

plus_days(d, n) == add_timedelta(d, n, 0, 0)

RuleInit ==
    /\ DeltaIdle /\ SetIdle /\ BuildIdle /\ AwareIdle /\ out = NoOutput
    /\ rule \in QueriedRules
    /\ len = None /\ gens = <<>> /\ yields = <<>> /\ seen = Unseen

\* the traversal of a query ran the generator to its end: rule._len is set
ran_out(reached_end) ==
    IF reached_end THEN Some(Len(list_loop(rrule_iter(rule), <<>>))) ELSE len

\* gen = iter(rule)
rrule_iterate ==
    /\ Len(gens) < MaxIters
    /\ gens' = Append(gens, iter(rule))
    /\ yields' = Append(yields, <<>>)
    /\ out' = NoOutput
    /\ UNCHANGED <<deltaVars, setVars, rule, len, seen, buildVars, awareVars>>

RECURSIVE taken(_)
\* how many datetimes the generators have yielded
taken(ys) == IF ys = <<>> THEN 0 ELSE Len(Head(ys)) + taken(Tail(ys))

\* next(gens[i]) gave r: a datetime, or the end of the traversal, which
\* leaves its length on the rule
stepped_shared(i, r) ==
    /\ gens' = [j \in DOMAIN gens |-> r.gen]
    /\ yields' = [yields EXCEPT ![i] = IF r.value = None THEN @ ELSE Append(@, Get(r.value))]
    /\ len' = IF r.value = None THEN Some(r.gen.total) ELSE len
    /\ out' = [call |-> "next", after |-> None, before |-> None, value |-> r.value]
stepped(i, r) ==
    /\ gens' = [gens EXCEPT ![i] = r.gen]
    /\ yields' = [yields EXCEPT ![i] = IF r.value = None THEN @ ELSE Append(@, Get(r.value))]
    /\ len' = IF r.value = None THEN Some(r.gen.total) ELSE len
    /\ out' = [call |-> "next", after |-> None, before |-> None, value |-> r.value]

\* next(gens[i])
rrule_step(i) ==
    /\ ~gens[i].done
    /\ stepped(i, next(gens[i]))
    /\ taken(yields') <= MaxNext
    /\ UNCHANGED <<deltaVars, setVars, rule, seen, buildVars, awareVars>>

\* rule.between(a, b)
rrule_between(a, b) ==
    /\ out' = [call |-> "between", after |-> Some(a), before |-> Some(b),
               value |-> between(iter(rule), a, b, FALSE),
               generated |-> between_left(iter(rule), a, b, FALSE).total,
               ended |-> between_left(iter(rule), a, b, FALSE).done]
    /\ seen' = IF seen = Unseen THEN [answer |-> out', fresh |-> gens = <<>>] ELSE seen
    /\ len' = ran_out(after_loop(iter(rule), b, TRUE) = None)
    /\ UNCHANGED <<deltaVars, setVars, rule, gens, yields, buildVars, awareVars>>

\* rule.after(d)
rrule_after(d) ==
    /\ out' = [call |-> "after", after |-> Some(d), before |-> None,
               value |-> after_loop(iter(rule), d, FALSE)]
    /\ len' = ran_out(out'.value = None)
    /\ UNCHANGED <<deltaVars, setVars, rule, gens, yields, seen, buildVars, awareVars>>

\* rule.before(d)
rrule_before(d) ==
    /\ out' = [call |-> "before", after |-> None, before |-> Some(d),
               value |-> before_loop(iter(rule), d, FALSE, None)]
    /\ len' = ran_out(after_loop(iter(rule), d, TRUE) = None)
    /\ UNCHANGED <<deltaVars, setVars, rule, gens, yields, seen, buildVars, awareVars>>

\* list(rule)
rrule_list ==
    /\ out' = [call |-> "list", after |-> None, before |-> None,
               value |-> list_loop(iter(rule), <<>>)]
    /\ len' = Some(Len(out'.value))
    /\ UNCHANGED <<deltaVars, setVars, rule, gens, yields, seen, buildVars, awareVars>>

RuleNext ==
    \/ rrule_iterate
    \/ \E i \in 1 .. Len(gens) : rrule_step(i)
    \/ \E w \in WindowDays :
           rrule_between(plus_days(rule.dtstart, w[1]), plus_days(rule.dtstart, w[2]))
    \/ rrule_after(rule.dtstart)
    \/ rrule_before(plus_days(rule.dtstart, 47))
    \/ rrule_list

SpecRule == RuleInit /\ [][RuleNext]_vars

(***************************************************************************)
(* Constructing rules: cells call rrule(...) and rule.replace(...), list a *)
(* rule they have constructed, or print a window of the set that includes  *)
(* one constructed rule and excludes another.                              *)
(***************************************************************************)
\* the (after, before) of the cell that prints the Fridays of September 2019
BuildWindow == <<date(2019, 9, 1), date(2019, 10, 1)>>

\* one call: rrule(**kw), or objs[self].replace(...) which passes kw to
\* rrule(); `before` is the receiver as it was when the call was made
call(name, self, kw, before) ==
    [call |-> name, self |-> self, kw |-> kw, before |-> before,
     exc |-> IF rrule_raises(kw) THEN "ValueError" ELSE "None",
     warning |-> IF ~rrule_raises(kw) /\ rrule_warns(kw) THEN "DeprecationWarning" ELSE "None"]

BuildInit ==
    /\ DeltaIdle /\ SetIdle /\ RuleIdle /\ BuildIdle /\ AwareIdle /\ out = NoOutput

\* rrule(**kw)
build_rrule(kw) ==
    /\ Len(calls) < MaxCalls
    /\ calls' = Append(calls, call("rrule", 0, kw, None))
    /\ objs' = IF rrule_raises(kw) THEN objs ELSE Append(objs, rrule(kw))
    /\ asked' = NotAsked /\ out' = NoOutput
    /\ UNCHANGED <<deltaVars, setVars, ruleVars, awareVars>>

\* objs[i].replace(**kw)
build_replace(i, kw) ==
    /\ Len(calls) < MaxCalls
    /\ calls' = Append(calls, call("replace", i, replace_kwargs(objs[i], kw), Some(objs[i])))
    /\ objs' = IF rrule_raises(replace_kwargs(objs[i], kw)) THEN objs
               ELSE replaced(objs, i, kw)
    /\ asked' = NotAsked /\ out' = NoOutput
    /\ UNCHANGED <<deltaVars, setVars, ruleVars, awareVars>>

\* print_dtlist(objs[i])
build_list(i) ==
    /\ asked' = [call |-> "list", rrule |-> i, exrule |-> 0,
                 exc |-> IF iter_raises(objs[i]) THEN "ValueError" ELSE "None"]
    /\ out' = [call |-> "list", after |-> None, before |-> None,
               value |-> IF iter_raises(objs[i]) THEN <<>>
                         ELSE list_loop(iter(objs[i]), <<>>)]
    /\ UNCHANGED <<deltaVars, setVars, ruleVars, objs, calls, awareVars>>

\* the set that includes r and excludes x
set_of(r, x) == [rruleset EXCEPT !.rrule = <<r>>, !.exrule = <<x>>]

\* rrs = rruleset(); rrs.rrule(objs[i]); rrs.exrule(objs[j]);
\* print_dtlist(rrs.between(after, before))
build_between(i, j) ==
    /\ i # j
    /\ asked' = [call |-> "between", rrule |-> i, exrule |-> j,
                 exc |-> IF iter_raises(objs[i]) \/ iter_raises(objs[j])
                         THEN "ValueError" ELSE "None"]
    /\ out' = [call |-> "between", after |-> Some(BuildWindow[1]),
               before |-> Some(BuildWindow[2]),
               value |-> IF iter_raises(objs[i]) \/ iter_raises(objs[j]) THEN <<>>
                         ELSE between(rruleset_iter(set_of(objs[i], objs[j])),
                                      BuildWindow[1], BuildWindow[2], FALSE)]
    /\ UNCHANGED <<deltaVars, setVars, ruleVars, objs, calls, awareVars>>

BuildNext ==
    \/ \E kw \in BuildKwargs : build_rrule(kw)
    \/ \E i \in 1 .. Len(objs) : \E kw \in ReplaceKwargs : build_replace(i, kw)
    \/ \E i \in 1 .. Len(objs) : build_list(i)
    \/ \E i, j \in 1 .. Len(objs) : build_between(i, j)

SpecBuild == BuildInit /\ [][BuildNext]_vars

(***************************************************************************)
(* The aware-semantics workbook: time zones of dateutil.tz (tz.gettz gives *)
(* the cached tzinfo object of a zone, tz.gettz.nocache a new one), aware  *)
(* datetimes with their fold, timestamp(), datetime.fromtimestamp and the  *)
(* comparison of aware datetimes.  A tzinfo object is its index in tzs;    *)
(* instants are minutes since 0001-01-01 00:00 UTC, offsets are minutes.   *)
(***************************************************************************)
MaxDatetimes == 3   \* aware datetimes made

\* one change of a zone's offset: the instant (UTC) and the offset from then on
transition(year, month, day, hour, offset) ==
    [utc |-> stamp(datetime(year, month, day, hour, 0)), offset |-> offset]

\* the zones of the workbook, by their standard offset and their transitions
\* in the years of the workbook's datetimes (2007, 2017, 2018)
Zones ==
    [London |->
        [std |-> 0,
         trans |-> <<transition(2007, 3, 25, 1, 60), transition(2007, 10, 28, 1, 0),
                     transition(2017, 3, 26, 1, 60), transition(2017, 10, 29, 1, 0),
                     transition(2018, 3, 25, 1, 60), transition(2018, 10, 28, 1, 0)>>],
     Chicago |->
        [std |-> -360,
         trans |-> <<transition(2007, 3, 11, 8, -300), transition(2007, 11, 4, 7, -360),
                     transition(2017, 3, 12, 8, -300), transition(2017, 11, 5, 7, -360),
                     transition(2018, 3, 11, 8, -300), transition(2018, 11, 4, 7, -360)>>],
     New_York |->
        [std |-> -300,
         trans |-> <<transition(2007, 3, 11, 7, -240), transition(2007, 11, 4, 6, -300),
                     transition(2017, 3, 12, 7, -240), transition(2017, 11, 5, 6, -300),
                     transition(2018, 3, 11, 7, -240), transition(2018, 11, 4, 6, -300)>>],
     Los_Angeles |->
        [std |-> -480,
         trans |-> <<transition(2007, 3, 11, 10, -420), transition(2007, 11, 4, 9, -480),
                     transition(2017, 3, 12, 10, -420), transition(2017, 11, 5, 9, -480),
                     transition(2018, 3, 11, 10, -420), transition(2018, 11, 4, 9, -480)>>]]

\* tzfile._trans_list and _trans_list_utc: the transitions in local standard
\* time and in UTC
trans_time(z, k, in_utc) ==
    IF in_utc THEN Zones[z].trans[k].utc ELSE Zones[z].trans[k].utc + Zones[z].std

\* tzfile._find_last_transition: how many transitions are at or before t
\* (bisect_right); 0 when t is before the first
find_last_transition(z, t, in_utc) ==
    Cardinality({k \in 1 .. Len(Zones[z].trans) : trans_time(z, k, in_utc) <= t})

\* tzfile._get_ttinfo: the offset in force after the k-th transition; the
\* standard offset before the first transition and from the last one on
get_ttinfo(z, k) ==
    IF k >= Len(Zones[z].trans) \/ k <= 0 THEN Zones[z].std
    ELSE Zones[z].trans[k].offset

\* tzfile.is_ambiguous(dt, idx): the wall time t, k transitions behind it, is
\* also a wall time of the offset before the k-th transition
is_ambiguous(z, t, k) ==
    /\ k > 0
    /\ t < trans_time(z, k, FALSE) + (get_ttinfo(z, k - 1) - get_ttinfo(z, k))

\* tzfile._resolve_ambiguous_time: with fold = 0 an ambiguous wall time is
\* taken before the transition
resolve_ambiguous_time(z, t, fold) ==
    IF fold = 0 /\ is_ambiguous(z, t, find_last_transition(z, t, FALSE))
    THEN find_last_transition(z, t, FALSE) - 1
    ELSE find_last_transition(z, t, FALSE)

\* tzinfo.utcoffset(dt) of a zone, for the wall time and the fold of dt
tz_utcoffset_standard(z, wall, fold) == Zones[z].std
tz_utcoffset(z, wall, fold) == get_ttinfo(z, resolve_ambiguous_time(z, stamp(wall), fold))

\* the datetime of an instant: the inverse of stamp
from_stamp(t) == add_timedelta(date(1, 1, 1), 0, 0, t)

\* an aware datetime: wall time, fold, tzinfo object; `from` is the datetime
\* whose timestamp it was made from (0 when the constructor made it)
aware(wall, fold, tzinfo, from) ==
    [wall |-> wall, fold |-> fold, tzinfo |-> tzinfo, from |-> from]

\* the name of the zone of a tzinfo object of ts
zone_of(ts, a) == ts[a.tzinfo].name

\* dt.utcoffset()
utcoffset(ts, a) == tz_utcoffset(zone_of(ts, a), a.wall, a.fold)

\* dt.replace(fold=not dt.fold).utcoffset()
utcoffset_other_fold(ts, a) == tz_utcoffset(zone_of(ts, a), a.wall, 1 - a.fold)

\* dt.timestamp(), in minutes since 0001-01-01 00:00 UTC
timestamp(ts, a) == stamp(a.wall) - utcoffset(ts, a)

\* tzfile.fromutc: the wall time and the fold of the instant u in the zone
fromutc_at(z, u, k) ==
    [wall |-> from_stamp(u + get_ttinfo(z, k)),
     fold |-> IF is_ambiguous(z, u + get_ttinfo(z, k), k) THEN 1 ELSE 0]
fromutc_standard(z, u) == fromutc_at(z, u, 0)
fromutc(z, u) == fromutc_at(z, u, find_last_transition(z, u, TRUE))

\* tz.datetime_exists(dt): the wall time survives the trip through UTC
datetime_exists(ts, a) == fromutc(zone_of(ts, a), timestamp(ts, a)).wall = a.wall

\* tz.gettz(name): the cached object of the zone, a new one (then cached)
\* when there is none; tz.gettz.nocache(name): a new object, not cached
cached(ts, name) == {i \in 1 .. Len(ts) : ts[i].name = name /\ ts[i].cached}
gettz(ts, name, nocache) ==
    IF nocache \/ cached(ts, name) = {} THEN Len(ts) + 1
    ELSE CHOOSE i \in cached(ts, name) : TRUE
tz_objects(ts, name, nocache) ==
    IF nocache \/ cached(ts, name) = {}
    THEN Append(ts, [name |-> name, cached |-> ~nocache])
    ELSE ts

\* zone_semantics(dt1, dt2) of the workbook
zone_semantics(a, b) == IF a.tzinfo = b.tzinfo THEN "Same Zone" ELSE "Different Zone"

\* datetime.__eq__ of two aware datetimes: the wall times are compared when
\* the tzinfo is the same object; otherwise a datetime whose offset depends
\* on its fold is unequal to anything, and the instants are compared
eq_by_zone_name(ts, a, b) ==
    IF zone_of(ts, a) = zone_of(ts, b) THEN a.wall = b.wall
    ELSE IF utcoffset(ts, a) # utcoffset_other_fold(ts, a) THEN FALSE
    ELSE IF utcoffset(ts, b) # utcoffset_other_fold(ts, b) THEN FALSE
    ELSE stamp(a.wall) - utcoffset(ts, a) = stamp(b.wall) - utcoffset(ts, b)
eq_absolute(ts, a, b) ==
    IF utcoffset(ts, a) # utcoffset_other_fold(ts, a) THEN FALSE
    ELSE IF utcoffset(ts, b) # utcoffset_other_fold(ts, b) THEN FALSE
    ELSE stamp(a.wall) - utcoffset(ts, a) = stamp(b.wall) - utcoffset(ts, b)
eq(ts, a, b) ==
    IF a.tzinfo = b.tzinfo THEN a.wall = b.wall
    ELSE IF utcoffset(ts, a) # utcoffset_other_fold(ts, a) THEN FALSE
    ELSE IF utcoffset(ts, b) # utcoffset_other_fold(ts, b) THEN FALSE
    ELSE IF utcoffset(ts, a) = utcoffset(ts, b) THEN a.wall = b.wall
    ELSE stamp(a.wall) - utcoffset(ts, a) = stamp(b.wall) - utcoffset(ts, b)

\* the datetime(...) calls of the cells: wall time, fold, zone, and whether
\* the tzinfo comes from tz.gettz.nocache
AwareCalls ==
    {<<datetime(2007, 3, 25, 1, 9), 0, "London", nc>> : nc \in BOOLEAN}
    \cup {<<datetime(2017, 10, 29, 1, 30), f, "London", nc>> : f \in {0, 1}, nc \in BOOLEAN}
    \cup {<<datetime(2018, 4, 7, 1, 30), 0, "Chicago", FALSE>>,
          <<datetime(2018, 4, 7, 2, 30), 0, "New_York", FALSE>>,
          <<datetime(2018, 4, 7, 1, 30), 0, "New_York", FALSE>>}

AwareInit ==
    /\ DeltaIdle /\ SetIdle /\ RuleIdle /\ BuildIdle /\ AwareIdle /\ out = NoOutput

\* datetime(..., fold=fold, tzinfo=tz.gettz(name)), or tz.gettz.nocache(name)
aware_datetime(wall, fold, name, nocache) ==
    /\ Len(dts) < MaxDatetimes
    /\ tzs' = tz_objects(tzs, name, nocache)
    /\ dts' = Append(dts, aware(wall, fold, gettz(tzs, name, nocache), 0))
    /\ cmp' = {}
    /\ UNCHANGED <<deltaVars, setVars, ruleVars, buildVars, out>>

\* what fromutc gave, as a datetime of the tzinfo object, made from dts[i]
from_timestamp(r, tzinfo, i) == aware(r.wall, r.fold, tzinfo, i)

\* datetime.fromtimestamp(dts[i].timestamp(), tz) with the zone of dts[i]:
\* tz is tz.gettz(name), or tz.gettz.nocache(name)
aware_fromtimestamp(i, nocache) ==
    /\ Len(dts) < MaxDatetimes
    /\ tzs' = tz_objects(tzs, zone_of(tzs, dts[i]), nocache)
    /\ dts' = Append(dts, from_timestamp(fromutc(zone_of(tzs, dts[i]), timestamp(tzs, dts[i])),
                                         gettz(tzs, zone_of(tzs, dts[i]), nocache), i))
    /\ cmp' = {}
    /\ UNCHANGED <<deltaVars, setVars, ruleVars, buildVars, out>>

\* print(f"x == y ({zone_semantics(x, y)}): {x == y}"), for each two datetimes
aware_compare ==
    /\ Len(dts) >= 2
    /\ cmp' = {[a |-> i, b |-> j, zone |-> zone_semantics(dts[i], dts[j]),
                eq |-> eq(tzs, dts[i], dts[j])]
                 : <<i, j>> \in {p \in (1 .. Len(dts)) \X (1 .. Len(dts)) : p[1] # p[2]}}
    /\ UNCHANGED <<deltaVars, setVars, ruleVars, buildVars, out, tzs, dts>>

AwareNext ==
    \/ \E c \in AwareCalls : aware_datetime(c[1], c[2], c[3], c[4])
    \/ \E i \in 1 .. Len(dts) : \E nocache \in BOOLEAN : aware_fromtimestamp(i, nocache)
    \/ aware_compare

SpecAware == AwareInit /\ [][AwareNext]_vars

(***************************************************************************)
(* Arithmetic of aware datetimes: the workbook prints wall_add,            *)
(* absolute_add, wall_sub and absolute_sub of datetimes it has made. The   *)
(* four functions are imported from tz_answers; a timedelta is a number of *)
(* minutes.                                                                *)
(***************************************************************************)
timedelta(days, hours) == (days * 24 + hours) * 60

\* wall_add(dt, offset): the wall clock of dt moved by offset, in dt's zone
wall_add(ts, a, offset) == aware(add_timedelta(a.wall, 0, 0, offset), 0, a.tzinfo, 0)

\* absolute_add(dt, offset): the instant of dt moved by offset, in dt's zone
absolute_add(ts, a, offset) ==
    from_timestamp(fromutc(zone_of(ts, a), timestamp(ts, a) + offset), a.tzinfo, 0)

\* wall_sub(dt, other): the wall clock of dt less the wall clock of other
wall_sub(ts, a, b) == stamp(a.wall) - stamp(b.wall)

\* absolute_sub(dt, other): the instant of dt less the instant of other
absolute_sub(ts, a, b) == timestamp(ts, a) - timestamp(ts, b)

\* the datetimes the cells make, (wall time, zone), and the timedeltas they add
ArithCalls ==
    {<<datetime(2018, 3, 10, 13, 0), "New_York">>,
     <<datetime(2018, 3, 10, 13, 30), "New_York">>,
     <<datetime(2018, 3, 11, 8, 30), "New_York">>,
     <<datetime(2018, 11, 4, 1, 30), "New_York">>,
     <<datetime(2018, 4, 17, 12, 0), "Los_Angeles">>}
Timedeltas == {timedelta(1, 0), timedelta(0, 1)}

ArithInit == AwareInit

\* print(wall_add(dts[i], offset))
print_wall_add(i, offset) ==
    /\ out' = [call |-> "wall_add", dt |-> i, other |-> offset,
               value |-> wall_add(tzs, dts[i], offset)]
    /\ UNCHANGED <<deltaVars, setVars, ruleVars, buildVars, awareVars>>

\* print(absolute_add(dts[i], offset))
print_absolute_add(i, offset) ==
    /\ out' = [call |-> "absolute_add", dt |-> i, other |-> offset,
               value |-> absolute_add(tzs, dts[i], offset)]
    /\ UNCHANGED <<deltaVars, setVars, ruleVars, buildVars, awareVars>>

\* print(wall_sub(dts[i], dts[j]))
print_wall_sub(i, j) ==
    /\ out' = [call |-> "wall_sub", dt |-> i, other |-> j,
               value |-> wall_sub(tzs, dts[i], dts[j])]
    /\ UNCHANGED <<deltaVars, setVars, ruleVars, buildVars, awareVars>>

\* print(absolute_sub(dts[i], dts[j]))
print_absolute_sub(i, j) ==
    /\ out' = [call |-> "absolute_sub", dt |-> i, other |-> j,
               value |-> absolute_sub(tzs, dts[i], dts[j])]
    /\ UNCHANGED <<deltaVars, setVars, ruleVars, buildVars, awareVars>>

ArithNext ==
    \/ \E c \in ArithCalls : aware_datetime(c[1], 0, c[2], FALSE)
    \/ \E i \in 1 .. Len(dts) : \E offset \in Timedeltas : print_wall_add(i, offset)
    \/ \E i \in 1 .. Len(dts) : \E offset \in Timedeltas : print_absolute_add(i, offset)
    \/ \E i, j \in 1 .. Len(dts) : print_wall_sub(i, j)
    \/ \E i, j \in 1 .. Len(dts) : print_absolute_sub(i, j)

SpecArith == ArithInit /\ [][ArithNext]_vars

(***************************************************************************)
(* Properties of the calendar-arithmetic workbook (SpecDelta).             *)
(***************************************************************************)
day30 == [kwargs EXCEPT !.day = Some(30)]
months1 == [kwargs EXCEPT !.months = 1]
lastday(year, month) ==
    CHOOSE d \in 28 .. 31 :
        /\ toordinal(date(year, month, d)) + 1
             = toordinal(IF month = 12 THEN date(year + 1, 1, 1) ELSE date(year, month + 1, 1))

\* C6: a day of the month that the resulting month does not have becomes the
\* last day of that month and the operation does not fail; with day=30 every
\* February date becomes the last day of its February (2015-02-28, 2016-02-29).
C6_DayFallsBackToLastDayOfMonth ==
    Len(trail) = 1 =>
        /\ (/\ delta.weekday = None /\ delta.days = 0
            /\ delta.hours = 0 /\ delta.minutes = 0
            /\ OrElse(delta.day, dt0.day) > lastday(dt.year, dt.month))
           => (exc = "None" /\ dt.day = lastday(dt.year, dt.month))
        /\ (recipe = <<step("relativedelta", day30, 0)>> /\ dt0.month = 2)
           => /\ exc = "None"
              /\ dt = date(dt0.year, 2, lastday(dt0.year, 2))
              /\ (dt0 = date(2015, 2, 1) => dt = date(2015, 2, 28))
              /\ (dt0 = date(2016, 2, 1) => dt = date(2016, 2, 29))

C6_Witness ==
    /\ dt0 = date(2016, 2, 1) /\ trail = <<"add">>
    /\ recipe = <<step("relativedelta", day30, 0)>>
    /\ dt = date(2016, 2, 29) /\ exc = "None"

\* C7: from 2020-03-31, months=+1 added twice gives 2020-05-30, while
\* months=+1 scaled by 2 (or combined with itself) and added once gives
\* 2020-05-31.
C7_SequentialAndComposedDiffer ==
    (dt0 = date(2020, 3, 31) /\ recipe[1] = step("relativedelta", months1, 0)) =>
        /\ (Len(recipe) = 1 /\ trail = <<"add", "add">>)
           => (exc = "None" /\ dt = date(2020, 5, 30))
        /\ (/\ Len(recipe) = 2 /\ trail = <<"add">>
            /\ recipe[2] \in {step("mul", kwargs, 2), step("add", months1, 0)})
           => (exc = "None" /\ dt = date(2020, 5, 31) /\ dt # date(2020, 5, 30))

C7_Witness ==
    /\ dt0 = date(2020, 3, 31) /\ trail = <<"add">>
    /\ recipe = <<step("relativedelta", months1, 0), step("mul", kwargs, 2)>>
    /\ dt = date(2020, 5, 31)

\* C8: when the datetime already falls on the weekday w, adding weekday=w(+1)
\* and adding weekday=w(-1) both give the datetime itself.
C8_OwnWeekdayIsFirstMatch ==
    \A w \in Weekdays : \A n \in {-1, 1} :
        (/\ recipe = <<step("relativedelta",
                            [kwargs EXCEPT !.weekday = Some(weekday_n(w, n))], 0)>>
         /\ trail = <<"add">>
         /\ weekday_of_ordinal(toordinal(dt0)) = w)
        => (exc = "None" /\ dt = dt0)

C8_Witness ==
    /\ dt0 = date(1975, 12, 30) /\ trail = <<"add">>
    /\ recipe = <<step("relativedelta",
                       [kwargs EXCEPT !.weekday = Some(weekday_n(TU, -1))], 0)>>
    /\ dt = date(1975, 12, 30)

\* the relativedelta with the sign of each relative field changed
negated_relative(o) ==
    [o EXCEPT !.years = -o.years, !.months = -o.months, !.days = -o.days,
              !.hours = -o.hours, !.minutes = -o.minutes]

\* the relativedelta with the direction of its weekday changed as well
negated_reversed(o) ==
    [negated_relative(o) EXCEPT
        !.weekday = IF o.weekday = None THEN None
                    ELSE Some(weekday_n(Get(o.weekday).weekday,
                                        IF Get(o.weekday).n = 0 THEN -1
                                        ELSE -Get(o.weekday).n))]

\* what the operation on dt0 leaves in dt and exc when it is dt0 + o
applies_as(o) ==
    IF radd_raises(o, dt0) THEN exc = "ValueError" /\ dt = dt0
    ELSE exc = "None" /\ dt = radd(o, dt0)

friday == [kwargs EXCEPT !.weekday = Some(weekday_n(FR, 0))]

\* C13 as stated: datetime - relativedelta applies the relativedelta with its
\* relative fields negated and the direction of its weekday reversed, the
\* absolute fields set as in addition.
C13_SubtractionReversesWeekday ==
    trail = <<"sub">> => applies_as(negated_reversed(delta))

\* C13: datetime - relativedelta applies the relativedelta with only its
\* relative fields negated: the absolute fields are set and the weekday is
\* searched for in the same direction, exactly as in addition
\* (1975-12-30 - relativedelta(weekday=FR) is 1976-01-02).
C13_SubtractionNegatesRelativeOnly ==
    trail = <<"sub">> =>
        /\ applies_as(negated_relative(delta))
        /\ (recipe = <<step("relativedelta", friday, 0)>> /\ dt0 = date(1975, 12, 30))
           => dt = date(1976, 1, 2)
        /\ (recipe = <<step("relativedelta", day30, 0)>> /\ dt0 = date(2016, 2, 1))
           => dt = date(2016, 2, 29)

\* a relativedelta with relative and absolute fields and a weekday, subtracted
C13_Witness ==
    /\ trail = <<"sub">> /\ dt0 = date(2019, 3, 1) /\ exc = "None"
    /\ recipe = <<step("relativedelta", [kwargs EXCEPT !.weekday = Some(weekday_n(FR, 2))], 0),
                  step("add", months1, 0)>>
    /\ dt = date(2019, 2, 8)
    /\ dt # radd(negated_reversed(delta), dt0)

weekday_only(kw) == kw.weekday # None /\ kw = [kwargs EXCEPT !.weekday = kw.weekday]

\* C14: a relativedelta that holds only a weekday gives the same datetime
\* subtracted as added: 1975-12-30 - relativedelta(weekday=FR) is 1976-01-02,
\* as 1975-12-30 + relativedelta(weekday=FR) is.
C14_WeekdayOnlyAddsAsSubtracts ==
    (Len(recipe) = 1 /\ weekday_only(recipe[1].kw) /\ Len(trail) = 1) =>
        /\ exc = "None"
        /\ dt = add_timedelta(dt0, jumpdays(Get(recipe[1].kw.weekday), dt0), 0, 0)
        /\ (recipe[1].kw = friday /\ dt0 = date(1975, 12, 30)) => dt = date(1976, 1, 2)

C14_Witness ==
    /\ recipe = <<step("relativedelta", friday, 0)>> /\ dt0 = date(1975, 12, 30)
    /\ trail = <<"sub">> /\ dt = date(1976, 1, 2)

\* the relative fields of a relativedelta, in months and in minutes
months_of(o) == o.years * 12 + o.months
minutes_of(o) == (o.days * 24 + o.hours) * 60 + o.minutes

absolute_of(o) == <<o.year, o.month, o.day, o.hour, o.minute>>

\* the ordinal of a weekday: weekday.n, 1 when it is None
ordinal_of(wd) == IF wd.n = 0 THEN 1 ELSE wd.n

scaled(kw, f) == recipe = <<step("relativedelta", kw, 0), step("mul", kwargs, f)>>

\* C15 as stated: relativedelta * n has the relative fields and the ordinal
\* of the weekday multiplied by n, the absolute fields and the day of the
\* week as they were.
C15_ScaleMultipliesWeekdayOrdinal ==
    \A kw \in DeltaKwargs : \A f \in Factors :
        scaled(kw, f) =>
            /\ months_of(delta) = months_of(relativedelta(kw)) * f
            /\ minutes_of(delta) = minutes_of(relativedelta(kw)) * f
            /\ absolute_of(delta) = absolute_of(relativedelta(kw))
            /\ kw.weekday # None =>
                  /\ delta.weekday # None
                  /\ Get(delta.weekday).weekday = Get(kw.weekday).weekday
                  /\ Abs(ordinal_of(Get(delta.weekday)))
                        = Abs(ordinal_of(Get(kw.weekday))) * Abs(f)

\* C15: relativedelta * n has the relative fields multiplied by n; the
\* absolute fields and the weekday, its day of the week and its ordinal, are
\* as they were.
C15_ScaleMultipliesRelativeOnly ==
    \A kw \in DeltaKwargs : \A f \in Factors :
        scaled(kw, f) =>
            /\ months_of(delta) = months_of(relativedelta(kw)) * f
            /\ minutes_of(delta) = minutes_of(relativedelta(kw)) * f
            /\ delta.leapdays = relativedelta(kw).leapdays
            /\ absolute_of(delta) = absolute_of(relativedelta(kw))
            /\ delta.weekday = kw.weekday

\* relativedelta(weekday=FR(2)) * 3 is relativedelta(weekday=FR(2))
C15_Witness ==
    /\ scaled([kwargs EXCEPT !.weekday = Some(weekday_n(FR, 2))], 3)
    /\ delta = relativedelta([kwargs EXCEPT !.weekday = Some(weekday_n(FR, 2))])

\* C16: multiplying a relativedelta by an integer changes neither its
\* weekday (day of the week and ordinal) nor its absolute fields, and the
\* product sets them in a datetime as the relativedelta itself does.
C16_ScaleKeepsWeekdayAndAbsolute ==
    (Len(recipe) = 2 /\ recipe[2].op = "mul") =>
        /\ delta.weekday = recipe[1].kw.weekday
        /\ absolute_of(delta) = absolute_of(recipe[1].kw)
        /\ (trail = <<"add">> /\ months_of(delta) = 0 /\ minutes_of(delta) = 0)
           => applies_as(relativedelta(recipe[1].kw))

\* (relativedelta(month=5, day=1, weekday=SU(2)) * 3) added to 2019-01-01
C16_Witness ==
    /\ scaled([kwargs EXCEPT !.month = Some(5), !.day = Some(1),
                             !.weekday = Some(weekday_n(SU, 2))], 3)
    /\ dt0 = date(2019, 1, 1) /\ trail = <<"add">> /\ dt = date(2019, 5, 12)

\* the n-th date that falls on the weekday w, counted from d onwards
\* (forward = 1) or from d backwards (forward = -1), d itself counting
nth_weekday_from(d, w, n, forward) ==
    add_timedelta(d,
        forward * (CHOOSE k \in 0 .. 7 * n :
            /\ weekday_of_ordinal(toordinal(d) + forward * k) = w
            /\ Cardinality({j \in 0 .. k - 1 :
                                weekday_of_ordinal(toordinal(d) + forward * j) = w}) = n - 1),
        0, 0)

\* C24: dt + relativedelta(weekday=w(+n)) is the n-th date on or after dt that
\* falls on w, and with w(-n) the n-th date on or before dt, dt itself
\* counting as the first when it falls on w; 1975-12-30 with FR gives
\* 1976-01-02, with FR(-1) 1975-12-26, with FR(2) 1976-01-09.
C24_NthWeekdayOnOrAfter ==
    (Len(recipe) = 1 /\ weekday_only(recipe[1].kw) /\ trail = <<"add">>) =>
        /\ exc = "None"
        /\ dt = nth_weekday_from(dt0, Get(recipe[1].kw.weekday).weekday,
                                 Abs(ordinal_of(Get(recipe[1].kw.weekday))),
                                 Sign(ordinal_of(Get(recipe[1].kw.weekday))))
        /\ dt0 = date(1975, 12, 30) =>
              /\ recipe[1].kw.weekday = Some(weekday_n(FR, 0)) => dt = date(1976, 1, 2)
              /\ recipe[1].kw.weekday = Some(weekday_n(FR, 1)) => dt = date(1976, 1, 2)
              /\ recipe[1].kw.weekday = Some(weekday_n(FR, -1)) => dt = date(1975, 12, 26)
              /\ recipe[1].kw.weekday = Some(weekday_n(FR, 2)) => dt = date(1976, 1, 9)

\* 1975-12-30, a Tuesday, with TU(-2): the Tuesday a week before
C24_Witness ==
    /\ recipe = <<step("relativedelta", [kwargs EXCEPT !.weekday = Some(weekday_n(TU, -2))], 0)>>
    /\ trail = <<"add">> /\ dt0 = date(1975, 12, 30) /\ dt = date(1975, 12, 23)

mothers_day_delta ==
    [kwargs EXCEPT !.month = Some(5), !.day = Some(1), !.weekday = Some(weekday_n(SU, 2))]

\* the second Sunday of May: the Sunday among 8 .. 14 May
second_sunday_of_may(year) ==
    CHOOSE d \in {date(year, 5, k) : k \in 8 .. 14} :
        weekday_of_ordinal(toordinal(d)) = SU

\* C18: relativedelta(month=5, day=1, weekday=SU(2)) added to a datetime of
\* the year Y gives the second Sunday of May of Y (2018-05-13, 2019-05-12,
\* 2020-05-10): month and day are set first, the weekday is found last.
C18_MothersDayOfTheYear ==
    (recipe = <<step("relativedelta", mothers_day_delta, 0)>> /\ trail = <<"add">>) =>
        /\ exc = "None"
        /\ dt = second_sunday_of_may(dt0.year)
        /\ dt0.year = 2018 => dt = date(2018, 5, 13)
        /\ dt0.year = 2019 => dt = date(2019, 5, 12)
        /\ dt0.year = 2020 => dt = date(2020, 5, 10)

\* from 2020-03-31, a datetime that is not the first of its year
C18_Witness ==
    /\ recipe = <<step("relativedelta", mothers_day_delta, 0)>> /\ trail = <<"add">>
    /\ dt0 = date(2020, 3, 31) /\ dt = date(2020, 5, 10)

(***************************************************************************)
(* Properties of the recurring-events workbook (SpecSet).                  *)
(***************************************************************************)
ToSet(l) == {l[i] : i \in 1 .. Len(l)}
Count(l, x) == Cardinality({i \in 1 .. Len(l) : l[i] = x})
Ascending(l) == \A i \in 1 .. Len(l) - 1 : stamp(l[i]) < stamp(l[i + 1])

\* the datetimes a rule produces on its own
occurrences_table == [r \in WorkbookRules |-> ToSet(list_loop(rrule_iter(r), <<>>))]
occurrences(r) == occurrences_table[r]

included(s) == UNION {occurrences(s.rrule[i]) : i \in 1 .. Len(s.rrule)} \cup ToSet(s.rdate)
excluded(s) == UNION {occurrences(s.exrule[i]) : i \in 1 .. Len(s.exrule)} \cup ToSet(s.exdate)

\* the datetimes of the output's window: all of them for the whole set,
\* those strictly between after and before for between()
in_window(o, d) ==
    o.call = "between" => (stamp(Get(o.after)) < stamp(d) /\ stamp(d) < stamp(Get(o.before)))

\* C1: whatever was added to the set, the printed sequence (the whole set, or
\* a window of it) holds exactly the datetimes that are included (by a rule
\* or as a date) and not excluded (by a rule or as a date), each once,
\* ascending.
C1_OutputIsUnionMinusExclusions ==
    out.call # "none" =>
        /\ ToSet(out.value) = {d \in included(rrs) \ excluded(rrs) : in_window(out, d)}
        /\ Ascending(out.value)

C1_Witness ==
    /\ rrs.rrule = <<meeting>> /\ rrs.exdate = <<datetime(2019, 6, 12, 14, 0)>>
    /\ out.call = "between" /\ out.after = Some(date(2019, 6, 4))
    /\ out.value = <<datetime(2019, 6, 5, 14, 0), datetime(2019, 6, 19, 14, 0)>>

\* C2: a datetime that two included rules both produce is printed exactly
\* once (when nothing excludes it), and no datetime is ever printed twice.
C2_SharedOccurrencePrintedOnce ==
    out.call # "none" =>
        /\ \A d \in ToSet(out.value) : Count(out.value, d) = 1
        /\ \A i, j \in 1 .. Len(rrs.rrule) :
               i # j =>
                   \A d \in occurrences(rrs.rrule[i]) \cap occurrences(rrs.rrule[j]) :
                       (in_window(out, d) /\ d \notin excluded(rrs))
                           => Count(out.value, d) = 1

C2_Witness ==
    /\ rrs.rrule = <<end_of_month, last_friday>> /\ out.call = "list"
    /\ Count(out.value, date(2019, 5, 31)) = 1
    /\ date(2019, 5, 31) \in occurrences(end_of_month) \cap occurrences(last_friday)

\* C3: with an excluded rule in the set, every datetime between() returns is
\* produced by an included source and by no excluded source, and an excluded
\* occurrence that no included source produces removes nothing: every
\* included datetime of the window that is not excluded is returned.
C3_ExclusionLaw ==
    (out.call = "between" /\ rrs.exrule # <<>>) =>
        /\ \A d \in ToSet(out.value) : d \in included(rrs) /\ d \notin excluded(rrs)
        /\ \A d \in included(rrs) :
               (in_window(out, d) /\ d \notin excluded(rrs)) => d \in ToSet(out.value)

\* last_friday minus end_of_month, 2019-04-15 to 2019-06-01: 2019-05-31 is
\* excluded, and the excluded 2019-04-30, which last_friday does not produce,
\* changes nothing
C3_Witness ==
    /\ rrs.rrule = <<last_friday>> /\ rrs.exrule = <<end_of_month>>
    /\ rrs.rdate = <<>> /\ rrs.exdate = <<>>
    /\ out.call = "between" /\ out.after = Some(date(2019, 4, 15))
    /\ date(2019, 4, 30) \in excluded(rrs) \ included(rrs)
    /\ date(2019, 5, 31) \in excluded(rrs) \cap included(rrs)
    /\ out.value = <<date(2019, 4, 26)>>

\* the whole set, as iterating it gives it
listed(s) == list_loop(rruleset_iter(s), <<>>)
Without(l, d) == SelectSeq(l, LAMBDA x : x # d)

\* C4: rrs.exdate(d) removes d from what the set produces when d was
\* produced, removes nothing else, and changes nothing when d was not
\* produced.
C4_ExdateRemovesExactlyThatOccurrence ==
    [][\A d \in SetDates :
          rrs'.exdate = Append(rrs.exdate, d) => listed(rrs') = Without(listed(rrs), d)]_vars

C4_Witness ==
    /\ rrs.rrule = <<meeting>> /\ rrs.exdate = <<datetime(2019, 6, 12, 14, 0)>>
    /\ out.call = "list"
    /\ datetime(2019, 6, 12, 14, 0) \notin ToSet(out.value)
    /\ datetime(2019, 6, 12, 14, 0) \in occurrences(meeting)

in_may_2019(d) == d.year = 2019 /\ d.month = 5

\* C5: the set of end_of_month and last_friday has exactly one occurrence in
\* May 2019, 2019-05-31: it is the only datetime of May 2019 in the whole
\* set and in the window from 2019-04-15 to 2019-06-01.
C5_OneOccurrenceInMay2019 ==
    (/\ rrs.rrule \in {<<end_of_month, last_friday>>, <<last_friday, end_of_month>>}
     /\ rrs.rdate = <<>> /\ rrs.exrule = <<>> /\ rrs.exdate = <<>>
     /\ out.call = "list" \/ (out.call = "between" /\ out.before = Some(date(2019, 6, 1))))
        => SelectSeq(out.value, in_may_2019) = <<date(2019, 5, 31)>>

C5_Witness ==
    /\ rrs.rrule = <<end_of_month, last_friday>>
    /\ rrs.rdate = <<>> /\ rrs.exrule = <<>> /\ rrs.exdate = <<>>
    /\ out.call = "between" /\ out.after = Some(date(2019, 4, 15))
    /\ out.value = <<date(2019, 4, 26), date(2019, 4, 30), date(2019, 5, 31)>>

\* the set holds these rules and excluded rules, and no dates
holds_rules(s, rules, exrules) ==
    s.rrule = rules /\ s.exrule = exrules /\ s.rdate = <<>> /\ s.exdate = <<>>

\* the Sundays strictly between 2019-04-15 and 2019-06-01
sundays_of_window ==
    {d \in {add_timedelta(date(2019, 4, 15), k, 0, 0) : k \in 1 .. 46} :
        weekday_of_ordinal(toordinal(d)) = SU}

\* C17: the rule yearly, bymonth=5, byweekday=SU(+2) from 2019-04-15 gives
\* the second Sunday of May of each year and nothing else, 2019-05-12 first;
\* the set of every_sunday without it gives, between 2019-04-15 and
\* 2019-06-01, every Sunday but 2019-05-12.
C17_SecondSundayOfMayExcluded ==
    /\ (holds_rules(rrs, <<mothers_day>>, <<>>) /\ out.call = "list") =>
          /\ Len(out.value) >= 3
          /\ out.value[1] = date(2019, 5, 12)
          /\ \A k \in 1 .. Len(out.value) : out.value[k] = second_sunday_of_may(2018 + k)
    /\ (/\ holds_rules(rrs, <<every_sunday>>, <<mothers_day>>)
        /\ out.call = "between" /\ out.after = Some(date(2019, 4, 15))) =>
          /\ ToSet(out.value) = sundays_of_window \ {second_sunday_of_may(2019)}
          /\ out.value = <<date(2019, 4, 21), date(2019, 4, 28), date(2019, 5, 5),
                           date(2019, 5, 19), date(2019, 5, 26)>>

C17_Witness ==
    /\ holds_rules(rrs, <<every_sunday>>, <<mothers_day>>)
    /\ out.call = "between" /\ out.after = Some(date(2019, 4, 15))
    /\ Len(out.value) = 5 /\ date(2019, 5, 12) \notin ToSet(out.value)
    /\ date(2019, 5, 12) \in sundays_of_window

(***************************************************************************)
(* Properties of a rule's traversals and queries (SpecRule).               *)
(***************************************************************************)
\* d is the n-th day of its weekday in its month (from the end when n < 0),
\* or in its year when the rule is yearly without bymonth
is_nth(kw, d, n) ==
    LET yearly == kw.freq = YEARLY /\ kw.bymonth = None
        pos    == IF yearly THEN days_before_month(d.year, d.month) + d.day ELSE d.day
        size   == IF yearly THEN (IF isleap(d.year) THEN 366 ELSE 365)
                  ELSE daysinmonth(d.year, d.month)
    IN IF n > 0 THEN (pos - 1) \div 7 = n - 1 ELSE (size - pos) \div 7 = (-n) - 1

\* d satisfies every by-rule the rule was built with
meets_by(kw, d) ==
    /\ kw.bymonth # None => d.month \in Get(kw.bymonth)
    /\ kw.bymonthday # None =>
          \E m \in Get(kw.bymonthday) :
              m = d.day \/ m = d.day - daysinmonth(d.year, d.month) - 1
    /\ kw.byweekday # None =>
          \E w \in Get(kw.byweekday) :
              /\ w.weekday = weekday(d)
              /\ w.n = 0 \/ kw.freq > MONTHLY \/ is_nth(kw, d, w.n)
    /\ kw.byhour # None => d.hour \in Get(kw.byhour)
    /\ kw.byminute # None => d.minute \in Get(kw.byminute)

\* d satisfies every field constraint the rule was built with: its by-rules,
\* its end bound, and the set position "last" of a monthly rule (no later day
\* of d's month satisfies the by-rules)
meets(kw, d) ==
    /\ meets_by(kw, d)
    /\ kw.until # None => stamp(d) <= stamp(Get(kw.until))
    /\ (kw.bysetpos = Some({-1}) /\ kw.freq = MONTHLY) =>
          \A e \in d.day + 1 .. daysinmonth(d.year, d.month) :
              ~meets_by(kw, [d EXCEPT !.day = e])

well_formed(l) ==
    /\ Ascending(l)
    /\ \A k \in 1 .. Len(l) :
          /\ stamp(l[k]) >= stamp(rule.dtstart)
          /\ meets(rule.original_rule, l[k])
          /\ l[k] = rule.dtstart => meets(rule.original_rule, rule.dtstart)

same_question(a, b) == a.call = b.call /\ a.after = b.after /\ a.before = b.before

C10_AscendingFromStartWithinConstraints ==
    /\ \A i \in 1 .. Len(yields) : well_formed(yields[i])
    /\ out.call = "list" => well_formed(out.value)

\* a generator has yielded three datetimes of a rule whose dtstart does not
\* satisfy the rule's constraints
C10_Witness ==
    /\ ~meets(rule.original_rule, rule.dtstart)
    /\ \E i \in 1 .. Len(yields) :
          Len(yields[i]) >= 3 /\ yields[i][1] # rule.dtstart

\* the datetimes of the rule in order, as one traversal on its own gives them
\* (through the periods the model visits)
traversed_alone == [r \in QueriedRules |-> list_loop(rrule_iter(r), <<>>)]
alone == traversed_alone[rule]

\* C26: of two traversals of one rule whose steps interleave in any order,
\* each gives the datetimes of the rule from the first on, in order, as far as
\* it has been advanced, and all of them once it has ended, whatever the other
\* traversal has done.
C26_TraversalsIndependent ==
    \A i \in 1 .. Len(gens) :
        /\ Len(yields[i]) <= Len(alone)
        /\ yields[i] = SubSeq(alone, 1, Len(yields[i]))
        /\ gens[i].done => yields[i] = alone

\* two traversals of the Sundays, one three datetimes ahead of the other,
\* the last step taken by the one behind
C26_Witness ==
    /\ rule = every_sunday /\ Len(gens) = 2
    /\ Len(yields[1]) = 3 /\ Len(yields[2]) = 1
    /\ out.call = "next" /\ out.value = Some(yields[2][1])

\* a traversal of end_of_month has run to its end next to a second one
traversal_ended ==
    /\ rule = end_of_month /\ Len(gens) = 2
    /\ gens[1].done /\ Len(yields[1]) = 4 /\ ~gens[2].done

\* C27: rule.between(a, b) on a rule with neither until nor count returns:
\* its traversal stops at the first datetime at or past b, which is the only
\* one it draws that is not before b, so it has drawn the datetimes of the
\* rule before b and that one, has not run the rule out, and returns none
\* that is not before b.
C27_BetweenStopsAtUpperBound ==
    (out.call = "between" /\ rule.original_rule.until = None
                          /\ rule.original_rule.count = None) =>
        /\ ~out.ended
        /\ out.generated =
              Cardinality({k \in 1 .. Len(alone) : stamp(alone[k]) < stamp(Get(out.before))}) + 1
        /\ out.generated < Len(alone)
        /\ stamp(alone[out.generated]) >= stamp(Get(out.before))
        /\ \A k \in 1 .. Len(out.value) : stamp(out.value[k]) < stamp(Get(out.before))

\* the Sundays of 30 days from 2019-04-15: four are returned, the fifth,
\* 2019-05-19, ends the traversal
C27_Witness ==
    /\ rule = every_sunday /\ out.call = "between"
    /\ out.before = Some(date(2019, 5, 15))
    /\ Len(out.value) = 4 /\ out.generated = 5 /\ ~out.ended

\* dt.astimezone(tz.UTC) of a datetime of closing_times, whose tzinfo is
\* tz.gettz("America/New_York")
astimezone_utc(d) == from_stamp(stamp(d) - tz_utcoffset("New_York", d, 0))

\* C23: a rule with count=n and no until gives exactly n datetimes and ends;
\* closing_times (daily, Monday to Friday, byhour=17, from 2017-03-09 17:00
\* America/New_York, count=5) gives 5 datetimes, each on a weekday at 17:00
\* on the wall clock of the zone, which are 22:00 UTC before the transition
\* of 2017-03-12 and 21:00 UTC after it.
C23_CountEndsTheRule ==
    /\ (rule.original_rule.count # None /\ rule.original_rule.until = None) =>
          /\ \A i \in 1 .. Len(yields) : Len(yields[i]) <= Get(rule.original_rule.count)
          /\ out.call = "list" =>
                /\ Len(out.value) = Get(rule.original_rule.count)
                /\ len = Some(Get(rule.original_rule.count))
    /\ (rule = closing_times /\ out.call = "list") =>
          /\ Len(out.value) = 5
          /\ \A k \in 1 .. Len(out.value) :
                /\ weekday(out.value[k]) \in {MO, TU, WE, TH, FR}
                /\ out.value[k].hour = 17 /\ out.value[k].minute = 0
                /\ astimezone_utc(out.value[k]).hour =
                      (IF stamp(out.value[k]) < stamp(date(2017, 3, 12)) THEN 22 ELSE 21)
          /\ [k \in 1 .. 5 |-> astimezone_utc(out.value[k])] =
                <<datetime(2017, 3, 9, 22, 0), datetime(2017, 3, 10, 22, 0),
                  datetime(2017, 3, 13, 21, 0), datetime(2017, 3, 14, 21, 0),
                  datetime(2017, 3, 15, 21, 0)>>

\* list(closing_times) after a generator of the rule was advanced past the
\* weekend of the transition
C23_Witness ==
    /\ rule = closing_times /\ out.call = "list" /\ len = Some(5)
    /\ out.value[3] = datetime(2017, 3, 13, 17, 0)
    /\ \E i \in 1 .. Len(yields) : Len(yields[i]) >= 3

(***************************************************************************)
(* Properties of constructing rules (SpecBuild).                           *)
(***************************************************************************)
\* the arguments hold both a count and an end bound, or a month or an hour
\* outside its domain
malformed(kw) ==
    \/ kw.count # None /\ kw.until # None
    \/ \E m \in Given(kw.bymonth) : m < 1 \/ m > 12
    \/ \E h \in Given(kw.byhour) : h < 0 \/ h > 23

\* C11: constructing a rule with both a count and an end bound, or with a
\* month or an hour outside its domain, fails at construction, and
\* constructing one without such arguments does not; no traversal of a
\* constructed rule raises, and a rule that matches nothing gives no
\* occurrence instead.
C11_MalformedRuleFailsAtConstruction ==
    /\ \A k \in 1 .. Len(calls) : malformed(calls[k].kw) <=> calls[k].exc # "None"
    /\ asked.exc = "None"

\* C12: rule.replace(...) returns a new rule and leaves its receiver as it
\* was: after friday_13th = every_friday.replace(bymonthday=13), every_friday
\* still gives every Friday at 09:00 and at 17:00, and the set that includes
\* every_friday and excludes friday_13th gives every such occurrence but
\* those of the 13th.
C12_ReplaceLeavesReceiver ==
    /\ \A k \in 1 .. Len(calls) :
          calls[k].call = "replace" => objs[calls[k].self] = Get(calls[k].before)
    /\ (/\ Len(calls) = 2
        /\ calls[1].call = "rrule" /\ calls[1].kw = every_friday.original_rule
        /\ calls[2].call = "replace" /\ calls[2].self = 1
        /\ calls[2].kw = [every_friday.original_rule EXCEPT !.bymonthday = Some({13})]) =>
          /\ Len(objs) = 2
          /\ (asked.call = "list" /\ asked.rrule = 1) =>
                /\ asked.exc = "None"
                /\ out.value =
                      SortedSeq({datetime(d.year, d.month, d.day, h, 0) :
                                    d \in {add_timedelta(date(2019, 9, 6), 7 * k, 0, 0)
                                              : k \in 0 .. MaxPeriods - 2},
                                    h \in {9, 17}})
          /\ (asked.call = "between" /\ asked.rrule = 1 /\ asked.exrule = 2) =>
                /\ asked.exc = "None"
                /\ out.value =
                      <<datetime(2019, 9, 6, 9, 0), datetime(2019, 9, 6, 17, 0),
                        datetime(2019, 9, 20, 9, 0), datetime(2019, 9, 20, 17, 0),
                        datetime(2019, 9, 27, 9, 0), datetime(2019, 9, 27, 17, 0)>>

C12_Witness ==
    /\ Len(calls) = 2 /\ Len(objs) = 2
    /\ calls[1].call = "rrule" /\ calls[1].kw = every_friday.original_rule
    /\ calls[2].call = "replace" /\ calls[2].self = 1
    /\ calls[2].kw = [every_friday.original_rule EXCEPT !.bymonthday = Some({13})]
    /\ objs[1] = every_friday /\ objs[2] = friday_13th
    /\ asked.call = "between" /\ asked.rrule = 1 /\ asked.exrule = 2
    /\ Len(out.value) = 6
    /\ datetime(2019, 9, 13, 9, 0) \in ToSet(list_loop(rrule_iter(objs[1]), <<>>))

\* a monthly rule of days of the month with one set position, whose end
\* bound lies in the year of its dtstart
monthly_setpos(kw) ==
    /\ kw.freq = MONTHLY /\ kw.byweekday = None /\ kw.bymonthday # None
    /\ kw.bysetpos # None /\ Cardinality(Get(kw.bysetpos)) = 1
    /\ kw.until # None /\ Get(kw.until).year = kw.dtstart.year

\* the days of bymonthday that the month has
days_in(kw, month) ==
    {d \in Get(kw.bymonthday) : d <= daysinmonth(kw.dtstart.year, month)}

\* the k-th of the days S, from the start (k > 0) or from the end (k < 0):
\* the set of that one day, empty when there is no k-th
kth(S, k) ==
    {d \in S : IF k > 0 THEN Cardinality({e \in S : e < d}) = k - 1
                ELSE Cardinality({e \in S : e > d}) = (-k) - 1}

\* what the rule gives: for each month from that of dtstart on, the k-th of
\* its days, from dtstart up to the end bound
selected(kw) ==
    SortedSeq({x \in {datetime(kw.dtstart.year, m, d, kw.dtstart.hour, kw.dtstart.minute) :
                        m \in {n \in kw.dtstart.month .. 12 :
                                  kw.bymonth = None \/ n \in Get(kw.bymonth)},
                        d \in 1 .. 31} :
                  /\ x.day \in kth(days_in(kw, x.month), CHOOSE k \in Get(kw.bysetpos) : TRUE)
                  /\ stamp(kw.dtstart) <= stamp(x) /\ stamp(x) <= stamp(Get(kw.until))})

\* C25: of the candidates of each period, sorted, bysetpos=k takes the k-th
\* from the start (k > 0) or from the end (k < 0), and nothing in a period
\* that has no k-th; the monthly rule with bymonthday=(28, 29, 30, 31) and
\* bysetpos=-1 gives one datetime a month, its last day.
C25_SetPositionPicksKth ==
    (asked.call = "list" /\ asked.exc = "None") =>
        /\ monthly_setpos(objs[asked.rrule].original_rule)
              => out.value = selected(objs[asked.rrule].original_rule)
        /\ objs[asked.rrule].original_rule = end_of_month.original_rule
              => out.value = <<date(2019, 3, 31), date(2019, 4, 30),
                               date(2019, 5, 31), date(2019, 6, 30)>>

\* end_of_month.replace(bysetpos=4): the 31st of March and of May, nothing in
\* April and June, which have three candidates
C25_Witness ==
    /\ asked.call = "list" /\ Len(objs) = 2
    /\ asked.rrule = 2 /\ objs[1] = end_of_month
    /\ objs[2].original_rule = [end_of_month.original_rule EXCEPT !.bysetpos = Some({4})]
    /\ out.value = <<date(2019, 3, 31), date(2019, 5, 31)>>

(***************************************************************************)
(* Properties of the aware-semantics workbook (SpecAware).                 *)
(***************************************************************************)
\* the instants that show the wall time of the datetime on the clocks of its
\* zone: none for an imaginary wall time, two for an ambiguous one
instants_of(a) ==
    {u \in {stamp(a.wall) - off :
               off \in {Zones[zone_of(tzs, a)].std, Zones[zone_of(tzs, a)].std + 60}} :
        fromutc(zone_of(tzs, a), u).wall = a.wall}

ambiguous(a) == Cardinality(instants_of(a)) = 2

\* what was printed for dts[i] == dts[j]
printed(i, j) == CHOOSE c \in cmp : c.a = i /\ c.b = j

autumn == datetime(2017, 10, 29, 1, 30)

\* the comparisons the workbook shows: 2017-10-29 01:30 with fold=0 and with
\* fold=1 are equal with one Europe/London object though their timestamps
\* differ, and unequal with two objects; 2018-04-07 01:30 America/Chicago
\* equals 2018-04-07 02:30 America/New_York
shown(c) ==
    /\ (/\ dts[c.a].wall = autumn /\ dts[c.a].fold = 0
        /\ dts[c.b].wall = autumn /\ dts[c.b].fold = 1) =>
          /\ c.eq <=> dts[c.a].tzinfo = dts[c.b].tzinfo
          /\ timestamp(tzs, dts[c.a]) + 60 = timestamp(tzs, dts[c.b])
    /\ (/\ dts[c.a].wall = datetime(2018, 4, 7, 1, 30) /\ zone_of(tzs, dts[c.a]) = "Chicago"
        /\ dts[c.b].wall = datetime(2018, 4, 7, 2, 30) /\ zone_of(tzs, dts[c.b]) = "New_York")
          => c.eq

mystery ==
    /\ Len(dts) = 3
    /\ dts[1] = aware(datetime(2007, 3, 25, 1, 9), 0, 1, 0)
    /\ tzs = <<[name |-> "London", cached |-> TRUE], [name |-> "London", cached |-> FALSE]>>
    /\ dts[2].from = 1 /\ dts[2].tzinfo = 1
    /\ dts[3].from = 1 /\ dts[3].tzinfo = 2

\* C20: equality of aware datetimes is not transitive: with x the imaginary
\* 2007-03-25 01:09 Europe/London, y made from x's timestamp with the same
\* tzinfo object and z with a new one, x != y while x == z and y == z.
C20_EqualityNotTransitive ==
    (mystery /\ cmp # {}) =>
        /\ ~printed(1, 2).eq /\ ~printed(2, 1).eq
        /\ printed(1, 3).eq /\ printed(3, 1).eq
        /\ printed(2, 3).eq /\ printed(3, 2).eq
        /\ printed(1, 2).zone = "Same Zone"
        /\ printed(1, 3).zone = "Different Zone" /\ printed(2, 3).zone = "Different Zone"
        /\ instants_of(dts[1]) = {}
        /\ dts[2].wall = datetime(2007, 3, 25, 0, 9) /\ dts[3].wall = dts[2].wall

C20_Witness ==
    /\ mystery /\ cmp # {}
    /\ ~printed(1, 2).eq /\ printed(1, 3).eq /\ printed(3, 2).eq
    /\ ~datetime_exists(tzs, dts[1])

(***************************************************************************)
(* Properties of the arithmetic of aware datetimes (SpecArith).            *)
(***************************************************************************)
\* the datetime dts[i] is wall in the zone name
is_at(i, wall, name) == dts[i].wall = wall /\ zone_of(tzs, dts[i]) = name

wall_apart(a, b) ==
    ((toordinal(a) - toordinal(b)) * 24 + (a.hour - b.hour)) * 60 + (a.minute - b.minute)

====
